---- MODULE Spec2Model ----
(***************************************************************************)
(* Model of the operational-transformation engine of collab.nvim           *)
(* (go/sync.go): vector clocks, the four inclusion transforms, the         *)
(* document apply functions and the SyncManager that applies local and     *)
(* remote operations.  Strings are sequences of characters; a map is a     *)
(* function whose DOMAIN is the set of keys present.                        *)
(***************************************************************************)
EXTENDS Integers, Sequences, FiniteSets, TLC

(* ------------------------------ bounds --------------------------------- *)
\* operations created over all participants
MaxOps == 2
\* largest position an editor submits
MaxPos == 2
\* largest length of a submitted delete
MaxLen == 2
\* calls of apply_remote per participant
MaxDeliver == 2
\* calls of set_document over all participants
MaxResets == 1

Users == {"A", "B"}
\* the runes of a participant identifier, as Go's range over a string gives them
Runes(u) == IF u = "A" THEN <<65>> ELSE IF u = "B" THEN <<66>> ELSE <<67>>
\* texts an editor inserts and documents set_document installs
Texts == {<<"x">>}
InitContents == {<<>>, <<"a", "b">>}
\* time.Now().UnixNano() when the n-th operation is created: one wall clock
\* shared by the participants, two microseconds between two operations
Now(n) == 2000 * n
Positions == 0..MaxPos
Lengths == 1..MaxLen

OpInsert == "insert"
OpDelete == "delete"
OpRetain == "retain"

maxHistorySize == 1000

(* --------------------------- vector clocks ----------------------------- *)
\* Go map read: a missing key reads as the zero value
Get(vc, u) == IF u \in DOMAIN vc THEN vc[u] ELSE 0

EmptyClock == [u \in {} |-> 0]

Increment(vc, userID) ==
    [u \in DOMAIN vc \cup {userID} |-> IF u = userID THEN Get(vc, u) + 1 ELSE vc[u]]

Update(vc, other) ==
    [u \in DOMAIN vc \cup {x \in DOMAIN other : Get(vc, x) < other[x]} |->
        IF u \in DOMAIN other /\ Get(vc, u) < other[u] THEN other[u] ELSE vc[u]]

\* as HappensBefore, without the second loop over the keys of other
HappensBefore_ownKeysOnly(vc, other) ==
    /\ \A u \in DOMAIN vc : ~(vc[u] > Get(other, u))
    /\ \E u \in DOMAIN vc : vc[u] < Get(other, u)

HappensBefore(vc, other) ==
    /\ \A u \in DOMAIN vc : ~(vc[u] > Get(other, u))
    /\ \A u \in DOMAIN other : ~(Get(vc, u) > other[u])
    /\ \/ \E u \in DOMAIN vc : vc[u] < Get(other, u)
       \/ \E u \in DOMAIN other : Get(vc, u) < other[u]

Equals(vc, other) ==
    IF Cardinality(DOMAIN vc) # Cardinality(DOMAIN other)
    THEN \A u \in DOMAIN vc \cup DOMAIN other : Get(vc, u) = Get(other, u)
    ELSE \A u \in DOMAIN vc : Get(other, u) = vc[u]

IsConcurrent(vc, other) ==
    ~HappensBefore(vc, other) /\ ~HappensBefore(other, vc) /\ ~Equals(vc, other)

(* ------------------------ primitive transforms ------------------------- *)
transformInsertInsert(op1, op2, op1HasPriority) ==
    IF op2.Position < op1.Position
    THEN [op1 EXCEPT !.Position = op1.Position + op2.Length]
    ELSE IF op2.Position = op1.Position
         THEN IF op1HasPriority
              THEN op1
              ELSE [op1 EXCEPT !.Position = op1.Position + op2.Length]
         ELSE op1

\* as transformInsertDelete, shifting left whenever the deletion starts at or
\* before the insertion
transformInsertDelete_shiftsAlways(op1, op2) ==
    IF op2.Position <= op1.Position
    THEN [op1 EXCEPT !.Position = op1.Position - op2.Length]
    ELSE op1

transformInsertDelete(op1, op2) ==
    IF op2.Position <= op1.Position
    THEN IF op2.Position + op2.Length <= op1.Position
         THEN [op1 EXCEPT !.Position = op1.Position - op2.Length]
         ELSE [op1 EXCEPT !.Position = op2.Position]
    ELSE op1

\* as transformDeleteInsert, without the growth for an insertion inside the range
transformDeleteInsert_neverGrows(op1, op2) ==
    IF op2.Position <= op1.Position
    THEN [op1 EXCEPT !.Position = op1.Position + op2.Length]
    ELSE op1

transformDeleteInsert(op1, op2) ==
    IF op2.Position <= op1.Position
    THEN [op1 EXCEPT !.Position = op1.Position + op2.Length]
    ELSE IF op2.Position < op1.Position + op1.Length
         THEN [op1 EXCEPT !.Length = op1.Length + op2.Length]
         ELSE op1

transformDeleteDelete(op1, op2, op1HasPriority) ==
    IF op2.Position + op2.Length <= op1.Position
    THEN [op1 EXCEPT !.Position = op1.Position - op2.Length]
    ELSE IF op1.Position + op1.Length <= op2.Position
    THEN op1
    ELSE LET start1 == op1.Position
             end1   == op1.Position + op1.Length
             start2 == op2.Position
             end2   == op2.Position + op2.Length
         IN  IF start2 <= start1 /\ end2 >= end1
             THEN [op1 EXCEPT !.Position = start2, !.Content = <<>>, !.Length = 0]
             ELSE IF start1 <= start2 /\ end1 >= end2
             THEN [op1 EXCEPT !.Length = op1.Length - op2.Length]
             ELSE LET newStart  == IF start2 < start1 THEN start2 ELSE start1
                      overlap   == IF start2 < start1 THEN end2 - start1 ELSE end1 - start2
                      newLength == op1.Length - overlap
                  IN  [op1 EXCEPT !.Position = newStart,
                                  !.Length = IF newLength < 0 THEN 0 ELSE newLength]

inclusionTransform(op1, op2, op1HasPriority) ==
    CASE op1.Type = OpInsert /\ op2.Type = OpInsert -> transformInsertInsert(op1, op2, op1HasPriority)
      [] op1.Type = OpInsert /\ op2.Type = OpDelete -> transformInsertDelete(op1, op2)
      [] op1.Type = OpDelete /\ op2.Type = OpInsert -> transformDeleteInsert(op1, op2)
      [] op1.Type = OpDelete /\ op2.Type = OpDelete -> transformDeleteDelete(op1, op2, op1HasPriority)
      [] OTHER -> op1

(* ------------------------------ priority ------------------------------- *)
\* hash = ((hash << 5) + hash) + int64(c) over the runes of s; the strings
\* hashed here have three runes, for which the int64 sum does not wrap
RECURSIVE djb2(_, _)
djb2(hash, s) == IF s = <<>> THEN hash ELSE djb2(hash * 33 + Head(s), Tail(s))

hashString(s) == LET hash == djb2(5381, s) IN IF hash < 0 THEN -hash ELSE hash

calculatePriority(op) == hashString(Runes(op.UserID) \o op.ID) + op.Timestamp

(* ------------------------------ topological sort ----------------------- *)
\* the comparator handed to sort.Slice
Less(op1, op2) ==
    IF HappensBefore(op1.VectorClock, op2.VectorClock) THEN TRUE
    ELSE IF HappensBefore(op2.VectorClock, op1.VectorClock) THEN FALSE
    ELSE calculatePriority(op1) < calculatePriority(op2)

\* inner loop of insertion sort: for j := i; j > a && less(j, j-1); j-- { swap }
RECURSIVE SiftDown(_, _)
SiftDown(s, j) ==
    IF j > 1 /\ Less(s[j], s[j - 1])
    THEN SiftDown([s EXCEPT ![j] = s[j - 1], ![j - 1] = s[j]], j - 1)
    ELSE s

\* sort.Slice on fewer than 12 elements is an insertion sort
RECURSIVE InsertionSort(_, _)
InsertionSort(s, i) ==
    IF i > Len(s) THEN s ELSE InsertionSort(SiftDown(s, i), i + 1)

topologicalSort(operations) == InsertionSort(operations, 2)

(* ------------------------ operational transformation ------------------- *)
\* index of the first element of ops whose ID is id, 0 when there is none
FirstIndex(ops, id) ==
    IF \E k \in 1..Len(ops) : ops[k].ID = id
    THEN CHOOSE k \in 1..Len(ops) : ops[k].ID = id /\ \A m \in 1..(k - 1) : ops[m].ID # id
    ELSE 0

\* transform the operation named target against `against`: the remote one when
\* target carries the remote ID, else the first pending one with that ID
TransformTarget(st, remoteOp, target, against, hasPriority) ==
    IF target.ID = remoteOp.ID
    THEN [st EXCEPT !.remote = inclusionTransform(st.remote, against, hasPriority)]
    ELSE LET k == FirstIndex(st.locals, target.ID)
         IN  IF k = 0 THEN st
             ELSE [st EXCEPT !.locals[k] = inclusionTransform(st.locals[k], against, hasPriority)]

\* body of the double loop for one pair (op1, op2) of the sorted operations
TransformPair(st, remoteOp, op1, op2) ==
    IF HappensBefore(op1.VectorClock, op2.VectorClock)
    THEN TransformTarget(st, remoteOp, op2, op1, FALSE)
    ELSE IF HappensBefore(op2.VectorClock, op1.VectorClock)
    THEN TransformTarget(st, remoteOp, op1, op2, TRUE)
    ELSE IF IsConcurrent(op1.VectorClock, op2.VectorClock)
    THEN IF calculatePriority(op1) < calculatePriority(op2)
         THEN TransformTarget(st, remoteOp, op2, op1, FALSE)
         ELSE TransformTarget(st, remoteOp, op1, op2, TRUE)
    ELSE st

RECURSIVE TransformLoop(_, _, _, _, _)
TransformLoop(st, remoteOp, sortedOps, i, j) ==
    IF i > Len(sortedOps) THEN st
    ELSE IF j > Len(sortedOps) THEN TransformLoop(st, remoteOp, sortedOps, i + 1, i + 2)
    ELSE TransformLoop(TransformPair(st, remoteOp, sortedOps[i], sortedOps[j]),
                       remoteOp, sortedOps, i, j + 1)

\* returns the transformed remote operation and the transformed pending list
performOperationalTransformation(remoteOp, localOps) ==
    TransformLoop([remote |-> remoteOp, locals |-> localOps], remoteOp,
                  topologicalSort(<<remoteOp>> \o localOps), 1, 2)

(* ------------------------------ the document --------------------------- *)
Prefix(content, n) == SubSeq(content, 1, n)
Suffix(content, n) == SubSeq(content, n + 1, Len(content))

\* applyOperationToDocument with an unknown kind logged as an empty edit
applyOperationToDocument_logsUnknown(d, op) ==
    LET content == d.Content
        applied(newContent) ==
            [doc |-> [Content     |-> newContent,
                      Version     |-> d.Version + 1,
                      Operations  |-> Append(d.Operations, op),
                      VectorClock |-> Update(d.VectorClock, op.VectorClock)],
             err |-> "nil"]
    IN  IF op.Type = OpInsert
        THEN IF op.Position < 0 \/ op.Position > Len(content)
             THEN [doc |-> d, err |-> "InvalidPosition"]
             ELSE applied(Prefix(content, op.Position) \o op.Content \o Suffix(content, op.Position))
        ELSE IF op.Type = OpDelete
        THEN IF op.Position < 0 \/ op.Position >= Len(content)
             THEN [doc |-> d, err |-> "nil"]
             ELSE LET sum    == op.Position + op.Length
                      endPos == IF sum > Len(content) THEN Len(content) ELSE sum
                  IN  IF endPos <= op.Position
                      THEN [doc |-> d, err |-> "nil"]
                      ELSE applied(Prefix(content, op.Position) \o Suffix(content, endPos))
        ELSE applied(content)

\* applyOperationToDocument: the new document and the error ("nil": none)
applyOperationToDocument(d, op) ==
    LET content == d.Content
        applied(newContent) ==
            [doc |-> [Content     |-> newContent,
                      Version     |-> d.Version + 1,
                      Operations  |-> Append(d.Operations, op),
                      VectorClock |-> Update(d.VectorClock, op.VectorClock)],
             err |-> "nil"]
    IN  IF op.Type = OpInsert
        THEN IF op.Position < 0 \/ op.Position > Len(content)
             THEN [doc |-> d, err |-> "InvalidPosition"]
             ELSE applied(Prefix(content, op.Position) \o op.Content \o Suffix(content, op.Position))
        ELSE IF op.Type = OpDelete
        THEN IF op.Position < 0 \/ op.Position >= Len(content)
             THEN [doc |-> d, err |-> "nil"]
             ELSE LET sum    == op.Position + op.Length
                      endPos == IF sum > Len(content) THEN Len(content) ELSE sum
                  IN  IF endPos <= op.Position
                      THEN [doc |-> d, err |-> "nil"]
                      ELSE applied(Prefix(content, op.Position) \o Suffix(content, endPos))
        ELSE [doc |-> d, err |-> "UnknownKind"]

\* applyOperationDirectly without the version increment
applyOperationDirectly_keepsVersion(d, op) ==
    LET content == d.Content
        newContent ==
            IF op.Type = OpInsert
            THEN IF op.Position >= 0 /\ op.Position <= Len(content)
                 THEN Prefix(content, op.Position) \o op.Content \o Suffix(content, op.Position)
                 ELSE content
            ELSE IF op.Type = OpDelete
            THEN IF op.Position >= 0 /\ op.Position < Len(content)
                 THEN LET sum    == op.Position + op.Length
                          endPos == IF sum > Len(content) THEN Len(content) ELSE sum
                      IN  IF endPos > op.Position
                          THEN Prefix(content, op.Position) \o Suffix(content, endPos)
                          ELSE content
                 ELSE content
            ELSE content
    IN  [Content     |-> newContent,
         Version     |-> d.Version,
         Operations  |-> Append(d.Operations, op),
         VectorClock |-> Update(d.VectorClock, op.VectorClock)]

applyOperationDirectly(d, op) ==
    LET content == d.Content
        newContent ==
            IF op.Type = OpInsert
            THEN IF op.Position >= 0 /\ op.Position <= Len(content)
                 THEN Prefix(content, op.Position) \o op.Content \o Suffix(content, op.Position)
                 ELSE content
            ELSE IF op.Type = OpDelete
            THEN IF op.Position >= 0 /\ op.Position < Len(content)
                 THEN LET sum    == op.Position + op.Length
                          endPos == IF sum > Len(content) THEN Len(content) ELSE sum
                      IN  IF endPos > op.Position
                          THEN Prefix(content, op.Position) \o Suffix(content, endPos)
                          ELSE content
                 ELSE content
            ELSE content
    IN  [Content     |-> newContent,
         Version     |-> d.Version + 1,
         Operations  |-> Append(d.Operations, op),
         VectorClock |-> Update(d.VectorClock, op.VectorClock)]

RECURSIVE ReapplyAll(_, _)
ReapplyAll(d, ops) ==
    IF ops = <<>> THEN d ELSE ReapplyAll(applyOperationDirectly(d, Head(ops)), Tail(ops))

\* rebuild the document from the applied operations that are not being undone
undoLocalOperations(d, operations) ==
    LET localOpIDs   == {operations[k].ID : k \in 1..Len(operations)}
        remainingOps == SelectSeq(d.Operations, LAMBDA op : op.ID \notin localOpIDs)
    IN  ReapplyAll([d EXCEPT !.Content = <<>>, !.Version = 0, !.Operations = <<>>],
                   remainingOps)

\* the history of a manager whose maxHistorySize field holds maxSize
addToHistoryOf_dropsNothing(history, op, maxSize) ==
    Append(history, op)

addToHistoryOf(history, op, maxSize) ==
    IF Len(history) >= maxSize
    THEN Append(SubSeq(history, (Len(history) \div 2) + 1, Len(history)), op)
    ELSE Append(history, op)

addToHistory(history, op) == addToHistoryOf(history, op, maxHistorySize)

(* ------------------------------ the manager ---------------------------- *)
\* NewSyncManager followed by SetUserID
NewSyncManager(userID) ==
    [document         |-> [Content |-> <<>>, Version |-> 0, Operations |-> <<>>,
                           VectorClock |-> EmptyClock],
     userID           |-> userID,
     vectorClock      |-> [u \in {userID} |-> 0],
     localBuffer      |-> <<>>,
     remoteBuffer     |-> <<>>,
     acknowledgedOps  |-> {},
     operationHistory |-> <<>>]

InitializeDocument(m, content) ==
    [m EXCEPT !.document = [Content |-> content, Version |-> 0, Operations |-> <<>>,
                            VectorClock |-> EmptyClock],
              !.vectorClock = [u \in {m.userID} |-> 0]]

\* "%s-%d-%s" of the participant, the time and eight random bytes: the suffix
\* n stands for the part after the participant and makes the ID unique
generateOperationID(userID, n) == Runes(userID) \o <<48 + n>>

\* the manager after the call and the operation returned
CreateInsertOperation(m, position, content, now, n) ==
    LET clock == Increment(m.vectorClock, m.userID)
    IN  [sm |-> [m EXCEPT !.vectorClock = clock],
         op |-> [Type |-> OpInsert, Position |-> position, Content |-> content,
                 Length |-> Len(content), UserID |-> m.userID, Timestamp |-> now,
                 ID |-> generateOperationID(m.userID, n), VectorClock |-> clock]]

\* the call with the operation stamped before the clock advances
CreateDeleteOperation_stampsOldClock(m, position, length, now, n) ==
    LET clock == Increment(m.vectorClock, m.userID)
        doc   == m.document.Content
        sum   == position + length
        endPos == IF sum > Len(doc) THEN Len(doc) ELSE sum
        content == IF position >= 0 /\ position < Len(doc)
                   THEN SubSeq(doc, position + 1, endPos)
                   ELSE <<>>
    IN  [sm |-> [m EXCEPT !.vectorClock = clock],
         op |-> [Type |-> OpDelete, Position |-> position, Content |-> content,
                 Length |-> length, UserID |-> m.userID, Timestamp |-> now,
                 ID |-> generateOperationID(m.userID, n), VectorClock |-> m.vectorClock]]

CreateDeleteOperation(m, position, length, now, n) ==
    LET clock == Increment(m.vectorClock, m.userID)
        doc   == m.document.Content
        sum   == position + length
        endPos == IF sum > Len(doc) THEN Len(doc) ELSE sum
        content == IF position >= 0 /\ position < Len(doc)
                   THEN SubSeq(doc, position + 1, endPos)
                   ELSE <<>>
    IN  [sm |-> [m EXCEPT !.vectorClock = clock],
         op |-> [Type |-> OpDelete, Position |-> position, Content |-> content,
                 Length |-> length, UserID |-> m.userID, Timestamp |-> now,
                 ID |-> generateOperationID(m.userID, n), VectorClock |-> clock]]

\* the manager after the call, the error returned ("nil": none) and the step
\* the error message names
ApplyLocalOperation(m, op) ==
    LET m1 == [m EXCEPT !.localBuffer = Append(m.localBuffer, op)]
        r  == applyOperationToDocument(m1.document, op)
    IN  IF r.err # "nil"
        THEN [sm |-> m1, err |-> r.err, at |-> "apply local operation"]
        ELSE [sm |-> [m1 EXCEPT !.document = r.doc,
                                !.vectorClock = Update(m1.vectorClock, op.VectorClock),
                                !.operationHistory = addToHistory(m1.operationHistory, op)],
              err |-> "nil", at |-> ""]

\* re-apply the transformed pending operations; stops at the first error
RECURSIVE ReapplyLocals(_, _)
ReapplyLocals(d, ops) ==
    IF ops = <<>> THEN [doc |-> d, err |-> "nil"]
    ELSE LET r == applyOperationToDocument(d, Head(ops))
         IN  IF r.err # "nil" THEN r ELSE ReapplyLocals(r.doc, Tail(ops))

ApplyRemoteOperation(m, remoteOp) ==
    LET m1 == [m EXCEPT !.remoteBuffer = Append(m.remoteBuffer, remoteOp),
                        !.vectorClock = Update(m.vectorClock, remoteOp.VectorClock)]
        localOps == m1.localBuffer
        t  == performOperationalTransformation(remoteOp, localOps)
        d1 == undoLocalOperations(m1.document, localOps)
        r2 == applyOperationToDocument(d1, t.remote)
        r3 == ReapplyLocals(r2.doc, t.locals)
    IN  IF r2.err # "nil"
        THEN [sm |-> [m1 EXCEPT !.document = d1], err |-> r2.err,
              at |-> "apply transformed remote operation"]
        ELSE IF r3.err # "nil"
        THEN [sm |-> [m1 EXCEPT !.document = r3.doc], err |-> r3.err,
              at |-> "reapply transformed local operation"]
        ELSE [sm |-> [m1 EXCEPT !.document = r3.doc,
                                !.localBuffer = t.locals,
                                !.operationHistory = addToHistory(m1.operationHistory, t.remote)],
              err |-> "nil", at |-> ""]

\* the applied operations a peer with the given clock has not seen
GetOperationsSince_withoutEquals(m, vectorClock) ==
    SelectSeq(m.document.Operations,
              LAMBDA op : ~HappensBefore(op.VectorClock, vectorClock))

GetOperationsSince(m, vectorClock) ==
    SelectSeq(m.document.Operations,
              LAMBDA op : /\ ~HappensBefore(op.VectorClock, vectorClock)
                          /\ ~Equals(op.VectorClock, vectorClock))

(* ------------------------------ state machine -------------------------- *)
VARIABLES
    sm,         \* sm[p]: the SyncManager of participant p
    created,    \* created[p]: operations returned by make_* and not yet handed to apply_local
    net,        \* operations whose apply_local succeeded, available to the transport
    nextID,     \* number of operation IDs generated so far
    delivered,  \* delivered[p]: number of apply_remote calls made on p
    resets,     \* number of set_document calls made
    ret,        \* the last call: participant, name, argument and returned error
    tp,         \* the two sides of one transformation diamond (SpecTP)
    hist,       \* one operation history with its capacity (SpecHist)
    thr,        \* the threads of one participant, one lock-protected step at a time (SpecThreads)
    tie,        \* one concurrent pair as both participants transform it (SpecTie)
    join,       \* a participant that joins late and replays a peer's log (SpecJoin)
    clk,        \* three vector clocks built by the clock operations (SpecClock)
    it,         \* one call of inclusionTransform: arguments and result (SpecIT)
    hs,         \* the loop of hashString over one string, as a 64-bit word (SpecHash)
    lk,         \* threads of one manager at the grain of single lock operations (SpecLocks)
    rpc,        \* the editor client, the Go process and the two pipes between them (SpecRpc)
    ses         \* the SessionManager of one Go process (SpecSession)

vars == <<sm, created, net, nextID, delivered, resets, ret, tp, hist, thr, tie, join, clk, it, hs, lk, rpc, ses>>

\* messages the editor sends to handleDocumentOperation
DocMsgs ==
    [Type : {OpInsert, OpDelete, OpRetain}, Position : {0}, Content : Texts,
     Length : {1}, UserID : Users]

Init ==
    /\ sm = [p \in Users |-> NewSyncManager(p)]
    /\ created = [p \in Users |-> {}]
    /\ net = {}
    /\ nextID = 0
    /\ delivered = [p \in Users |-> 0]
    /\ resets = 0
    /\ ret = [user |-> "", call |-> "init", err |-> "nil", at |-> "", arg |-> <<>>]
    /\ tp = [done |-> FALSE]
    /\ hist = [on |-> FALSE]
    /\ thr = [on |-> FALSE]
    /\ tie = [done |-> FALSE]
    /\ join = [on |-> FALSE]
    /\ clk = [on |-> FALSE]
    /\ it = [done |-> FALSE]
    /\ hs = [on |-> FALSE]
    /\ lk = [on |-> FALSE]
    /\ rpc = [on |-> FALSE]
    /\ ses = [on |-> FALSE]

set_document(p, c) ==
    /\ resets < MaxResets
    /\ sm' = [sm EXCEPT ![p] = InitializeDocument(sm[p], c)]
    /\ resets' = resets + 1
    /\ ret' = [user |-> p, call |-> "set_document", err |-> "nil", at |-> "", arg |-> c]
    /\ UNCHANGED <<created, net, nextID, delivered, tp, hist, thr, tie, join, clk, it, hs, lk, rpc, ses>>

make_insert(p, position, content) ==
    /\ nextID < MaxOps
    /\ LET r == CreateInsertOperation(sm[p], position, content, Now(nextID), nextID)
       IN  /\ sm' = [sm EXCEPT ![p] = r.sm]
           /\ created' = [created EXCEPT ![p] = @ \cup {r.op}]
           /\ ret' = [user |-> p, call |-> "make_insert", err |-> "nil", at |-> "", arg |-> r.op]
    /\ nextID' = nextID + 1
    /\ UNCHANGED <<net, delivered, resets, tp, hist, thr, tie, join, clk, it, hs, lk, rpc, ses>>

make_delete(p, position, length) ==
    /\ nextID < MaxOps
    /\ LET r == CreateDeleteOperation(sm[p], position, length, Now(nextID), nextID)
       IN  /\ sm' = [sm EXCEPT ![p] = r.sm]
           /\ created' = [created EXCEPT ![p] = @ \cup {r.op}]
           /\ ret' = [user |-> p, call |-> "make_delete", err |-> "nil", at |-> "", arg |-> r.op]
    /\ nextID' = nextID + 1
    /\ UNCHANGED <<net, delivered, resets, tp, hist, thr, tie, join, clk, it, hs, lk, rpc, ses>>

apply_local(p, op) ==
    /\ op \in created[p]
    /\ LET r == ApplyLocalOperation(sm[p], op)
       IN  /\ sm' = [sm EXCEPT ![p] = r.sm]
           /\ net' = IF r.err = "nil" THEN net \cup {op} ELSE net
           /\ ret' = [user |-> p, call |-> "apply_local", err |-> r.err, at |-> r.at, arg |-> op]
    /\ created' = [created EXCEPT ![p] = @ \ {op}]
    /\ UNCHANGED <<nextID, delivered, resets, tp, hist, thr, tie, join, clk, it, hs, lk, rpc, ses>>

\* the transport delivers an operation of another participant, possibly again
apply_remote(p, op) ==
    /\ op \in net
    /\ op.UserID # p
    /\ delivered[p] < MaxDeliver
    /\ LET r == ApplyRemoteOperation(sm[p], op)
       IN  /\ sm' = [sm EXCEPT ![p] = r.sm]
           /\ ret' = [user |-> p, call |-> "apply_remote", err |-> r.err, at |-> r.at, arg |-> op]
    /\ delivered' = [delivered EXCEPT ![p] = @ + 1]
    /\ UNCHANGED <<created, net, nextID, resets, tp, hist, thr, tie, join, clk, it, hs, lk, rpc, ses>>

\* CollabManager.handleDocumentOperation: the operation is built from the
\* message without a vector clock and applied as local or remote by its user
handleDocumentOperation(p, msg) ==
    /\ nextID < MaxOps
    /\ msg.UserID # p => delivered[p] < MaxDeliver
    /\ LET syncOp == [Type |-> msg.Type, Position |-> msg.Position, Content |-> msg.Content,
                      Length |-> msg.Length, UserID |-> msg.UserID, Timestamp |-> Now(nextID),
                      ID |-> generateOperationID(msg.UserID, nextID),
                      VectorClock |-> EmptyClock]
           r == IF msg.UserID = p THEN ApplyLocalOperation(sm[p], syncOp)
                                  ELSE ApplyRemoteOperation(sm[p], syncOp)
       IN  /\ sm' = [sm EXCEPT ![p] = r.sm]
           /\ ret' = [user |-> p,
                      call |-> IF msg.UserID = p THEN "apply_local" ELSE "apply_remote",
                      err |-> r.err, at |-> r.at, arg |-> syncOp]
    /\ nextID' = nextID + 1
    /\ delivered' = IF msg.UserID # p THEN [delivered EXCEPT ![p] = @ + 1] ELSE delivered
    /\ UNCHANGED <<created, net, resets, tp, hist, thr, tie, join, clk, it, hs, lk, rpc, ses>>

Next ==
    \/ \E p \in Users, c \in InitContents : set_document(p, c)
    \/ \E p \in Users, position \in Positions, content \in Texts :
          make_insert(p, position, content)
    \/ \E p \in Users, position \in Positions, length \in Lengths :
          make_delete(p, position, length)
    \/ \E p \in Users : \E op \in created[p] : apply_local(p, op)
    \/ \E p \in Users : \E op \in net : apply_remote(p, op)
    \/ \E p \in Users, msg \in DocMsgs : handleDocumentOperation(p, msg)

Spec == Init /\ [][Next]_vars

(* ---------------- two participants on one initial document -------------- *)
\* both participants have called set_document with the same content; every
\* local operation is in bounds when it is made and is handed to apply_local
\* before the next one is made; the transport delivers each operation to the
\* other participant exactly once
IDsOf(ops) == {ops[k].ID : k \in 1..Len(ops)}

InitConv ==
    /\ \E c \in InitContents :
          sm = [p \in Users |-> InitializeDocument(NewSyncManager(p), c)]
    /\ created = [p \in Users |-> {}]
    /\ net = {}
    /\ nextID = 0
    /\ delivered = [p \in Users |-> 0]
    /\ resets = 0
    /\ ret = [user |-> "", call |-> "init", err |-> "nil", at |-> "", arg |-> <<>>]
    /\ tp = [done |-> FALSE]
    /\ hist = [on |-> FALSE]
    /\ thr = [on |-> FALSE]
    /\ tie = [done |-> FALSE]
    /\ join = [on |-> FALSE]
    /\ clk = [on |-> FALSE]
    /\ it = [done |-> FALSE]
    /\ hs = [on |-> FALSE]
    /\ lk = [on |-> FALSE]
    /\ rpc = [on |-> FALSE]
    /\ ses = [on |-> FALSE]

NextConv ==
    \/ \E p \in Users, position \in Positions, content \in Texts :
          /\ created[p] = {}
          /\ position <= Len(sm[p].document.Content)
          /\ make_insert(p, position, content)
    \/ \E p \in Users, position \in Positions, length \in Lengths :
          /\ created[p] = {}
          /\ position + length <= Len(sm[p].document.Content)
          /\ make_delete(p, position, length)
    \/ \E p \in Users : \E op \in created[p] : apply_local(p, op)
    \/ \E p \in Users : \E op \in net :
          /\ op.ID \notin IDsOf(sm[p].remoteBuffer)
          /\ apply_remote(p, op)

SpecConv == InitConv /\ [][NextConv]_vars

(* ------------------------ one transformation diamond ------------------- *)
TPDoc == <<"a", "b", "c", "d">>

TPOp(type, position, content, length, userID, n) ==
    [Type |-> type, Position |-> position, Content |-> content, Length |-> length,
     UserID |-> userID, Timestamp |-> Now(n), ID |-> generateOperationID(userID, n),
     VectorClock |-> [u \in {userID} |-> 1]]

\* the operations of one participant that are valid on the document S
ValidOps(S, userID, text, n) ==
    {TPOp(OpInsert, position, text, Len(text), userID, n) : position \in 0..Len(S)}
    \cup {TPOp(OpDelete, pl[1], SubSeq(S, pl[1] + 1, pl[1] + pl[2]), pl[2], userID, n) :
            pl \in {x \in (0..(Len(S) - 1)) \X (1..Len(S)) : x[1] + x[2] <= Len(S)}}

\* the document apply function on a bare content
Apply(S, op) ==
    applyOperationToDocument([Content |-> S, Version |-> 0, Operations |-> <<>>,
                              VectorClock |-> EmptyClock], op).doc.Content

InitTP ==
    /\ sm = [p \in Users |-> NewSyncManager(p)]
    /\ created = [p \in Users |-> {}]
    /\ net = {}
    /\ nextID = 0
    /\ delivered = [p \in Users |-> 0]
    /\ resets = 0
    /\ ret = [user |-> "", call |-> "init", err |-> "nil", at |-> "", arg |-> <<>>]
    /\ \E a \in ValidOps(TPDoc, "A", <<"x">>, 0), b \in ValidOps(TPDoc, "B", <<"y">>, 1) :
          tp = [done |-> FALSE, S |-> TPDoc, a |-> a, b |-> b, left |-> <<>>, right |-> <<>>]
    /\ hist = [on |-> FALSE]
    /\ thr = [on |-> FALSE]
    /\ tie = [done |-> FALSE]
    /\ join = [on |-> FALSE]
    /\ clk = [on |-> FALSE]
    /\ it = [done |-> FALSE]
    /\ hs = [on |-> FALSE]
    /\ lk = [on |-> FALSE]
    /\ rpc = [on |-> FALSE]
    /\ ses = [on |-> FALSE]

Diamond ==
    /\ ~tp.done
    /\ tp' = [tp EXCEPT !.done = TRUE,
                        !.left  = Apply(Apply(tp.S, tp.a), inclusionTransform(tp.b, tp.a, FALSE)),
                        !.right = Apply(Apply(tp.S, tp.b), inclusionTransform(tp.a, tp.b, TRUE))]
    /\ UNCHANGED <<sm, created, net, nextID, delivered, resets, ret, hist, thr, tie, join, clk, it, hs, lk, rpc, ses>>

SpecTP == InitTP /\ [][Diamond]_vars

(* ------------------------------ properties ----------------------------- *)
ClockEq(a, b) == \A u \in DOMAIN a \cup DOMAIN b : Get(a, u) = Get(b, u)

\* nothing is waiting: every made operation was applied by its maker and every
\* sent operation was delivered to the other participant
Quiescent ==
    /\ \A p \in Users : created[p] = {}
    /\ \A p \in Users : \A op \in net : op.UserID # p => op.ID \in IDsOf(sm[p].remoteBuffer)

\* C1 (convergence): once every operation has been applied by its maker and
\* delivered exactly once to the other participant, the two documents have the
\* same content and the same clock.
C1_Convergence ==
    Quiescent =>
        \A p, q \in Users :
            /\ sm[p].document.Content = sm[q].document.Content
            /\ ClockEq(sm[p].document.VectorClock, sm[q].document.VectorClock)

\* C2 (TP1): for operations a, b valid on S, applying a then IT(b, a, FALSE)
\* gives the same content as applying b then IT(a, b, TRUE).
C2_TP1 == tp.done => tp.left = tp.right

\* C3 (idempotent delivery): an apply_remote of an operation whose ID is already
\* in the applied log leaves content, version, clock and applied log unchanged.
C3_IdempotentDelivery ==
    [][(/\ ret'.call = "apply_remote"
        /\ ret'.arg.ID \in IDsOf(sm[ret'.user].document.Operations))
       => sm'[ret'.user].document = sm[ret'.user].document]_vars

\* C4 (causality): in every applied log, an operation whose clock happens
\* before the clock of another operation of the log is stored before it.
C4_Causality ==
    \A p \in Users :
        LET log == sm[p].document.Operations
        IN  \A i, j \in 1..Len(log) :
                HappensBefore(log[i].VectorClock, log[j].VectorClock) => i < j

\* C5 (version monotonicity): an apply_local or apply_remote call that returns
\* without error never leaves a smaller version than it found.
C5_VersionMonotone ==
    [][(ret'.call \in {"apply_local", "apply_remote"} /\ ret'.err = "nil")
       => sm'[ret'.user].document.Version >= sm[ret'.user].document.Version]_vars

\* C6: in every reachable state the version of each document equals the number
\* of operations in its applied log.
C6_VersionIsLogLength ==
    \A p \in Users : sm[p].document.Version = Len(sm[p].document.Operations)

\* an apply_remote succeeded on a participant with a pending local operation
\* that was skipped as a no-op, next to operations that were applied
C6_Witness ==
    /\ ret.call = "apply_remote"
    /\ ret.err = "nil"
    /\ sm[ret.user].document.Version >= 1
    /\ \E k \in 1..Len(sm[ret.user].localBuffer) :
          sm[ret.user].localBuffer[k].ID \notin IDsOf(sm[ret.user].document.Operations)

OutOfBounds(op, content) ==
    IF op.Type = OpInsert
    THEN op.Position < 0 \/ op.Position > Len(content)
    ELSE op.Position < 0 \/ op.Position >= Len(content)
            \/ op.Position + op.Length > Len(content)

\* C7: apply_local of an Insert or Delete that is out of bounds of the
\* document it is applied to returns an error.
C7_LocalOutOfBoundsFails ==
    [][(/\ ret'.call = "apply_local"
        /\ ret'.arg.Type \in {OpInsert, OpDelete}
        /\ OutOfBounds(ret'.arg, sm[ret'.user].document.Content))
       => ret'.err # "nil"]_vars

\* C8: apply_remote never fails on the position of the transformed remote
\* operation.
C8_RemoteNeverInvalidPosition ==
    ~(/\ ret.call = "apply_remote"
      /\ ret.at = "apply transformed remote operation"
      /\ ret.err = "InvalidPosition")

\* C9: an operation that is neither Insert nor Delete is answered with an error
\* by apply_local and by apply_remote, and no applied log ever holds one.
C9_RetainRejected ==
    /\ \A p \in Users : \A k \in 1..Len(sm[p].document.Operations) :
          sm[p].document.Operations[k].Type \in {OpInsert, OpDelete}
    /\ (ret.call \in {"apply_local", "apply_remote"} /\ ret.arg.Type \notin {OpInsert, OpDelete})
          => ret.err = "UnknownKind"

\* a Retain was handed to apply_remote of a participant whose pending buffer
\* holds a Retain handed to apply_local before
C9_Witness ==
    /\ ret.call = "apply_remote"
    /\ ret.arg.Type = OpRetain
    /\ ret.err = "UnknownKind"
    /\ \E k \in 1..Len(sm[ret.user].localBuffer) : sm[ret.user].localBuffer[k].Type = OpRetain

\* C10: right after set_document(c) the content is c, the version 0, and the
\* applied log, the pending buffer, the remote buffer and the history are empty.
C10_SetDocumentClears ==
    ret.call = "set_document" =>
        LET m == sm[ret.user]
        IN  /\ m.document.Content = ret.arg
            /\ m.document.Version = 0
            /\ m.document.Operations = <<>>
            /\ m.localBuffer = <<>>
            /\ m.remoteBuffer = <<>>
            /\ m.operationHistory = <<>>

\* C11: make_insert and make_delete raise the caller's own entry of its clock
\* by exactly one and leave every other entry alone; the operation returned
\* carries the new clock; content, version, applied log and pending buffer of
\* the caller are as before.
C11_MakeFrame ==
    [][ret'.call \in {"make_insert", "make_delete"} =>
          LET u == ret'.user
              old == sm[u]
              new == sm'[u]
          IN  /\ Get(new.vectorClock, u) = Get(old.vectorClock, u) + 1
              /\ DOMAIN new.vectorClock = DOMAIN old.vectorClock \cup {u}
              /\ \A v \in DOMAIN old.vectorClock \ {u} : new.vectorClock[v] = old.vectorClock[v]
              /\ ret'.arg.VectorClock = new.vectorClock
              /\ new.document = old.document
              /\ new.localBuffer = old.localBuffer]_vars

\* a delete was made by a participant that has a non-empty document, a pending
\* operation of its own and a clock entry of the other participant
C11_Witness ==
    /\ ret.call = "make_delete"
    /\ sm[ret.user].document.Content # <<>>
    /\ \E v \in DOMAIN sm[ret.user].vectorClock : v # ret.user /\ sm[ret.user].vectorClock[v] > 0
    /\ ret.arg.VectorClock = sm[ret.user].vectorClock

(* ------------------------- reading the applied log --------------------- *)
MaxClock == 1

\* a peer may know a participant this session has not heard of
PeerNames == Users \cup {"C"}

PeerClocks == UNION {[S -> 0..MaxClock] : S \in SUBSET PeerNames}

get_operations_since(p, vectorClock) ==
    /\ ret' = [user |-> p, call |-> "get_operations_since", err |-> "nil", at |-> "",
               arg |-> vectorClock, out |-> GetOperationsSince(sm[p], vectorClock)]
    /\ UNCHANGED <<sm, created, net, nextID, delivered, resets, tp, hist, thr, tie, join, clk, it, hs, lk, rpc, ses>>

NextRead ==
    \/ NextConv
    \/ \E p \in Users, msg \in DocMsgs : handleDocumentOperation(p, msg)
    \/ \E p \in Users, vectorClock \in PeerClocks : get_operations_since(p, vectorClock)

SpecRead == InitConv /\ [][NextRead]_vars

LeqClock(a, b) == \A u \in DOMAIN a \cup DOMAIN b : Get(a, u) <= Get(b, u)

\* C12: get_operations_since(peer_clock) returns, in the order of the applied
\* log, exactly the applied operations whose clock is not componentwise below
\* or equal to peer_clock, a missing entry counting as 0.
C12_OperationsSince ==
    ret.call = "get_operations_since" =>
        ret.out = SelectSeq(sm[ret.user].document.Operations,
                            LAMBDA op : ~LeqClock(op.VectorClock, ret.arg))

\* a read with a peer clock that names a third participant returned some but
\* not all operations of a log of two
C12_Witness ==
    /\ ret.call = "get_operations_since"
    /\ "C" \in DOMAIN ret.arg
    /\ Len(sm[ret.user].document.Operations) = 2
    /\ Len(ret.out) = 1

(* -------------------- acknowledgments and the pending buffer ------------ *)
AcknowledgeOperation(m, opID) ==
    [m EXCEPT !.acknowledgedOps = @ \cup {opID}]

\* the filter with its test turned round
RemoveApplied_keepsApplied(operations, appliedOps) ==
    SelectSeq(operations, LAMBDA op : op.ID \in IDsOf(appliedOps))

RemoveApplied(operations, appliedOps) ==
    SelectSeq(operations, LAMBDA op : op.ID \notin IDsOf(appliedOps))

\* the acknowledgment map is pruned against the buffer as it was on entry
CleanupHistory(m) ==
    LET localOps == m.localBuffer
        acknowledgedLocal == SelectSeq(localOps, LAMBDA op : op.ID \in m.acknowledgedOps)
    IN  [m EXCEPT !.localBuffer = RemoveApplied(m.localBuffer, acknowledgedLocal),
                  !.acknowledgedOps = {opID \in m.acknowledgedOps : opID \in IDsOf(localOps)}]

\* the ids a participant may acknowledge: ids of operations of its own, whether
\* made already or never
AckIDs(p) == {generateOperationID(p, n) : n \in 0..(MaxOps - 1)}

acknowledge(p, opID) ==
    /\ sm' = [sm EXCEPT ![p] = AcknowledgeOperation(sm[p], opID)]
    /\ ret' = [user |-> p, call |-> "acknowledge", err |-> "nil", at |-> "", arg |-> opID]
    /\ UNCHANGED <<created, net, nextID, delivered, resets, tp, hist, thr, tie, join, clk, it, hs, lk, rpc, ses>>

cleanup(p) ==
    /\ sm' = [sm EXCEPT ![p] = CleanupHistory(sm[p])]
    /\ ret' = [user |-> p, call |-> "cleanup", err |-> "nil", at |-> "", arg |-> <<>>]
    /\ UNCHANGED <<created, net, nextID, delivered, resets, tp, hist, thr, tie, join, clk, it, hs, lk, rpc, ses>>

NextAck ==
    \/ NextConv
    \/ \E p \in Users : \E opID \in AckIDs(p) : acknowledge(p, opID)
    \/ \E p \in Users : cleanup(p)

SpecAck == InitConv /\ [][NextAck]_vars

IDSeq(ops) == [k \in 1..Len(ops) |-> ops[k].ID]

C14_CleanupPrunes ==
    [][(ret'.call = "cleanup") =>
          LET old == sm[ret'.user]
              new == sm'[ret'.user]
          IN  /\ new.localBuffer = SelectSeq(old.localBuffer,
                                             LAMBDA op : op.ID \notin old.acknowledgedOps)
              /\ new.document = old.document
              /\ \A opID \in new.acknowledgedOps : opID \in IDsOf(new.localBuffer)]_vars

(* ----------------------------- bounded history ------------------------- *)
MaxCap == 4
MaxAdds == 7

\* one history of capacity hist.max and the operations added to it so far
InitHist ==
    /\ sm = [p \in Users |-> NewSyncManager(p)]
    /\ created = [p \in Users |-> {}]
    /\ net = {}
    /\ nextID = 0
    /\ delivered = [p \in Users |-> 0]
    /\ resets = 0
    /\ ret = [user |-> "", call |-> "init", err |-> "nil", at |-> "", arg |-> <<>>]
    /\ tp = [done |-> FALSE]
    /\ \E maxSize \in 1..MaxCap :
          hist = [on |-> TRUE, max |-> maxSize, history |-> <<>>, added |-> <<>>]
    /\ thr = [on |-> FALSE]
    /\ tie = [done |-> FALSE]
    /\ join = [on |-> FALSE]
    /\ clk = [on |-> FALSE]
    /\ it = [done |-> FALSE]
    /\ hs = [on |-> FALSE]
    /\ lk = [on |-> FALSE]
    /\ rpc = [on |-> FALSE]
    /\ ses = [on |-> FALSE]

\* apply_local or apply_remote adds the operation it has applied
add_to_history(op) ==
    /\ Len(hist.added) < MaxAdds
    /\ hist' = [hist EXCEPT !.history = addToHistoryOf(hist.history, op, hist.max),
                            !.added = Append(hist.added, op)]
    /\ UNCHANGED <<sm, created, net, nextID, delivered, resets, ret, tp, thr, tie, join, clk, it, hs, lk, rpc, ses>>

NextHist ==
    \E u \in Users :
       add_to_history(TPOp(OpInsert, 0, <<"x">>, 1, u, Len(hist.added)))

SpecHist == InitHist /\ [][NextHist]_vars

IsSuffix(s, t) ==
    /\ Len(s) <= Len(t)
    /\ s = SubSeq(t, Len(t) - Len(s) + 1, Len(t))

Host == "A"

GetDocumentState(m) == m.document

\* the operation the editor thread has made, with the manager after making it
LocalChoices(m, n) ==
    {CreateInsertOperation(m, position, <<"x">>, Now(n), n) : position \in 0..1}
    \cup {CreateDeleteOperation(m, 0, 1, Now(n), n)}

\* the operation the transport thread delivers
RemoteChoices(n) ==
    {TPOp(OpInsert, 0, <<"y">>, 1, "B", n), TPOp(OpDelete, 0, <<"a">>, 1, "B", n)}

InitThreads ==
    /\ created = [p \in Users |-> {}]
    /\ net = {}
    /\ nextID = 0
    /\ delivered = [p \in Users |-> 0]
    /\ resets = 0
    /\ ret = [user |-> "", call |-> "init", err |-> "nil", at |-> "", arg |-> <<>>]
    /\ tp = [done |-> FALSE]
    /\ hist = [on |-> FALSE]
    /\ tie = [done |-> FALSE]
    /\ join = [on |-> FALSE]
    /\ clk = [on |-> FALSE]
    /\ it = [done |-> FALSE]
    /\ hs = [on |-> FALSE]
    /\ lk = [on |-> FALSE]
    /\ rpc = [on |-> FALSE]
    /\ ses = [on |-> FALSE]
    /\ \E c \in InitContents, pending \in BOOLEAN, rn \in {0, 3} :
          LET m0 == InitializeDocument(NewSyncManager(Host), c)
              c1 == CreateInsertOperation(m0, 0, <<"x">>, Now(1), 1)
              m1 == IF pending THEN ApplyLocalOperation(c1.sm, c1.op).sm ELSE m0
          IN  \E lc \in LocalChoices(m1, 2), r \in RemoteChoices(rn) :
                 /\ sm = [p \in Users |-> IF p = Host THEN lc.sm ELSE NewSyncManager(p)]
                 /\ thr = [on |-> TRUE, m0 |-> lc.sm, l |-> lc.op, r |-> r,
                           lpc |-> "start", lerr |-> "nil", lh |-> <<>>,
                           rpc |-> "start", rerr |-> "nil", rh |-> <<>>,
                           localOps |-> <<>>, t |-> [remote |-> r, locals |-> <<>>], k |-> 0,
                           before |-> lc.sm.document, after |-> lc.sm.document,
                           seen |-> FALSE, read |-> [call |-> "", out |-> <<>>],
                           overlap |-> FALSE, fatal |-> FALSE]

\* a call that has started and not returned
InProgress(pc) == pc \notin {"start", "done", "fatal"}

\* ApplyLocalOperation: sm.localBuffer.Add(op)
local_add ==
    /\ thr.lpc = "start"
    /\ sm' = [sm EXCEPT ![Host].localBuffer = Append(@, thr.l)]
    /\ thr' = [thr EXCEPT !.lpc = "apply", !.overlap = thr.overlap \/ InProgress(thr.rpc)]
    /\ UNCHANGED <<created, net, nextID, delivered, resets, ret, tp, hist, tie, join, clk, it, hs, lk, rpc, ses>>

\* ApplyLocalOperation: sm.applyOperationToDocument(op)
local_apply ==
    /\ thr.lpc = "apply"
    /\ LET r == applyOperationToDocument(sm[Host].document, thr.l)
       IN  /\ sm' = [sm EXCEPT ![Host].document = r.doc]
           /\ thr' = [thr EXCEPT !.lpc = IF r.err = "nil" THEN "clock" ELSE "done",
                                 !.lerr = r.err]
    /\ UNCHANGED <<created, net, nextID, delivered, resets, ret, tp, hist, tie, join, clk, it, hs, lk, rpc, ses>>

\* ApplyLocalOperation: sm.vectorClock.Update(op.VectorClock)
local_clock ==
    /\ thr.lpc = "clock"
    /\ \/ /\ sm' = [sm EXCEPT ![Host].vectorClock = Update(@, thr.l.VectorClock)]
          /\ thr' = [thr EXCEPT !.lpc = "history"]
       \/ /\ thr.rpc = "clock"
          /\ thr' = [thr EXCEPT !.lpc = "fatal", !.rpc = "fatal", !.fatal = TRUE]
          /\ UNCHANGED sm
    /\ UNCHANGED <<created, net, nextID, delivered, resets, ret, tp, hist, tie, join, clk, it, hs, lk, rpc, ses>>

\* ApplyLocalOperation: sm.addToHistory(op), the read of the slice
local_history_read ==
    /\ thr.lpc = "history"
    /\ thr' = [thr EXCEPT !.lpc = "history_write", !.lh = sm[Host].operationHistory]
    /\ UNCHANGED <<sm, created, net, nextID, delivered, resets, ret, tp, hist, tie, join, clk, it, hs, lk, rpc, ses>>

\* ApplyLocalOperation: sm.addToHistory(op), the write of the slice
local_history_write ==
    /\ thr.lpc = "history_write"
    /\ sm' = [sm EXCEPT ![Host].operationHistory = addToHistory(thr.lh, thr.l)]
    /\ thr' = [thr EXCEPT !.lpc = "done"]
    /\ UNCHANGED <<created, net, nextID, delivered, resets, ret, tp, hist, tie, join, clk, it, hs, lk, rpc, ses>>

\* ApplyRemoteOperation: transformMutex.Lock and sm.remoteBuffer.Add(remoteOp)
remote_begin ==
    /\ thr.rpc = "start"
    /\ sm' = [sm EXCEPT ![Host].remoteBuffer = Append(@, thr.r)]
    /\ thr' = [thr EXCEPT !.rpc = "clock", !.before = sm[Host].document,
                          !.overlap = thr.overlap \/ InProgress(thr.lpc)]
    /\ UNCHANGED <<created, net, nextID, delivered, resets, ret, tp, hist, tie, join, clk, it, hs, lk, rpc, ses>>

\* ApplyRemoteOperation: sm.vectorClock.Update(remoteOp.VectorClock)
remote_clock ==
    /\ thr.rpc = "clock"
    /\ \/ /\ sm' = [sm EXCEPT ![Host].vectorClock = Update(@, thr.r.VectorClock)]
          /\ thr' = [thr EXCEPT !.rpc = "snapshot"]
       \/ /\ thr.lpc = "clock"
          /\ thr' = [thr EXCEPT !.lpc = "fatal", !.rpc = "fatal", !.fatal = TRUE]
          /\ UNCHANGED sm
    /\ UNCHANGED <<created, net, nextID, delivered, resets, ret, tp, hist, tie, join, clk, it, hs, lk, rpc, ses>>

\* ApplyRemoteOperation: localOps := sm.localBuffer.GetAll() and the
\* transformation, which works on the thread's own copies
remote_snapshot ==
    /\ thr.rpc = "snapshot"
    /\ thr' = [thr EXCEPT !.rpc = "undo", !.localOps = sm[Host].localBuffer,
                          !.t = performOperationalTransformation(thr.r, sm[Host].localBuffer)]
    /\ UNCHANGED <<sm, created, net, nextID, delivered, resets, ret, tp, hist, tie, join, clk, it, hs, lk, rpc, ses>>

\* ApplyRemoteOperation: sm.undoLocalOperations(localOps)
remote_undo ==
    /\ thr.rpc = "undo"
    /\ sm' = [sm EXCEPT ![Host].document = undoLocalOperations(@, thr.localOps)]
    /\ thr' = [thr EXCEPT !.rpc = "remote"]
    /\ UNCHANGED <<created, net, nextID, delivered, resets, ret, tp, hist, tie, join, clk, it, hs, lk, rpc, ses>>

\* ApplyRemoteOperation: sm.applyOperationToDocument(transformedOp)
remote_apply ==
    /\ thr.rpc = "remote"
    /\ LET r == applyOperationToDocument(sm[Host].document, thr.t.remote)
       IN  /\ sm' = [sm EXCEPT ![Host].document = r.doc]
           /\ thr' = [thr EXCEPT !.rpc = IF r.err # "nil" THEN "done"
                                         ELSE IF thr.t.locals = <<>> THEN "clear"
                                         ELSE "reapply",
                                 !.rerr = r.err, !.k = 1, !.after = r.doc]
    /\ UNCHANGED <<created, net, nextID, delivered, resets, ret, tp, hist, tie, join, clk, it, hs, lk, rpc, ses>>

\* ApplyRemoteOperation: one turn of the loop that re-applies the transformed
\* local operations
remote_reapply ==
    /\ thr.rpc = "reapply"
    /\ LET r == applyOperationToDocument(sm[Host].document, thr.t.locals[thr.k])
       IN  /\ sm' = [sm EXCEPT ![Host].document = r.doc]
           /\ thr' = [thr EXCEPT !.rpc = IF r.err # "nil" THEN "done"
                                         ELSE IF thr.k = Len(thr.t.locals) THEN "clear"
                                         ELSE "reapply",
                                 !.rerr = r.err, !.k = thr.k + 1, !.after = r.doc]
    /\ UNCHANGED <<created, net, nextID, delivered, resets, ret, tp, hist, tie, join, clk, it, hs, lk, rpc, ses>>

\* ApplyRemoteOperation: sm.localBuffer.Clear()
remote_clear ==
    /\ thr.rpc = "clear"
    /\ sm' = [sm EXCEPT ![Host].localBuffer = <<>>]
    /\ thr' = [thr EXCEPT !.rpc = IF thr.t.locals = <<>> THEN "history" ELSE "refill", !.k = 1]
    /\ UNCHANGED <<created, net, nextID, delivered, resets, ret, tp, hist, tie, join, clk, it, hs, lk, rpc, ses>>

\* ApplyRemoteOperation: one sm.localBuffer.Add(op) of the transformed operations
remote_refill ==
    /\ thr.rpc = "refill"
    /\ sm' = [sm EXCEPT ![Host].localBuffer = Append(@, thr.t.locals[thr.k])]
    /\ thr' = [thr EXCEPT !.rpc = IF thr.k = Len(thr.t.locals) THEN "history" ELSE "refill",
                          !.k = thr.k + 1]
    /\ UNCHANGED <<created, net, nextID, delivered, resets, ret, tp, hist, tie, join, clk, it, hs, lk, rpc, ses>>

\* ApplyRemoteOperation: sm.addToHistory(transformedOp), the read of the slice
remote_history_read ==
    /\ thr.rpc = "history"
    /\ thr' = [thr EXCEPT !.rpc = "history_write", !.rh = sm[Host].operationHistory]
    /\ UNCHANGED <<sm, created, net, nextID, delivered, resets, ret, tp, hist, tie, join, clk, it, hs, lk, rpc, ses>>

\* ApplyRemoteOperation: sm.addToHistory(transformedOp), the write of the
\* slice, and the return
remote_history_write ==
    /\ thr.rpc = "history_write"
    /\ sm' = [sm EXCEPT ![Host].operationHistory = addToHistory(thr.rh, thr.t.remote)]
    /\ thr' = [thr EXCEPT !.rpc = "done", !.after = sm[Host].document]
    /\ UNCHANGED <<created, net, nextID, delivered, resets, ret, tp, hist, tie, join, clk, it, hs, lk, rpc, ses>>

\* the reader thread calls GetDocumentState
read_document ==
    /\ ~thr.seen
    /\ ~thr.fatal
    /\ thr' = [thr EXCEPT !.seen = TRUE,
                          !.read = [call |-> "get_document", out |-> GetDocumentState(sm[Host])]]
    /\ UNCHANGED <<sm, created, net, nextID, delivered, resets, ret, tp, hist, tie, join, clk, it, hs, lk, rpc, ses>>

\* the reader thread calls GetOperationsSince with the clock of a new peer
read_operations_since ==
    /\ ~thr.seen
    /\ ~thr.fatal
    /\ thr' = [thr EXCEPT !.seen = TRUE,
                          !.read = [call |-> "get_operations_since",
                                    out |-> GetOperationsSince(sm[Host], EmptyClock)]]
    /\ UNCHANGED <<sm, created, net, nextID, delivered, resets, ret, tp, hist, tie, join, clk, it, hs, lk, rpc, ses>>

NextThreads ==
    \/ local_add \/ local_apply \/ local_clock
    \/ local_history_read \/ local_history_write
    \/ remote_begin \/ remote_clock \/ remote_snapshot \/ remote_undo
    \/ remote_apply \/ remote_reapply \/ remote_clear \/ remote_refill
    \/ remote_history_read \/ remote_history_write
    \/ read_document \/ read_operations_since

SpecThreads == InitThreads /\ [][NextThreads]_vars

\* the two serial orders of the two calls on the manager the threads started on
LocalThenRemote == ApplyRemoteOperation(ApplyLocalOperation(thr.m0, thr.l).sm, thr.r).sm

RemoteThenLocal == ApplyLocalOperation(ApplyRemoteOperation(thr.m0, thr.r).sm, thr.l).sm

SameDocumentAndBuffers(m, serial) ==
    /\ m.document = serial.document
    /\ m.localBuffer = serial.localBuffer
    /\ m.remoteBuffer = serial.remoteBuffer

\* C16: an apply_local and an apply_remote are never in progress together;
\* when both calls have returned, document and buffers are those of one of the
\* two serial orders, and the local operation is in the pending buffer and, if
\* apply_local accepted it, in the applied log.
C16_MutualExclusion ==
    /\ ~thr.overlap
    /\ (thr.lpc = "done" /\ thr.rpc = "done") =>
          /\ \/ SameDocumentAndBuffers(sm[Host], LocalThenRemote)
             \/ SameDocumentAndBuffers(sm[Host], RemoteThenLocal)
          /\ thr.l.ID \in IDsOf(sm[Host].localBuffer)
          /\ thr.lerr = "nil" => thr.l.ID \in IDsOf(sm[Host].document.Operations)

\* C17: with no apply_local running, what a reader gets while or around an
\* apply_remote is what it would have got before the call or after it.
C17_ReaderSeesNoIntermediate ==
    (thr.seen /\ thr.rpc = "done" /\ thr.lpc = "start") =>
        \/ /\ thr.read.call = "get_document"
           /\ thr.read.out \in {thr.before, thr.after}
        \/ /\ thr.read.call = "get_operations_since"
           /\ thr.read.out \in {GetOperationsSince([document |-> thr.before], EmptyClock),
                                GetOperationsSince([document |-> thr.after], EmptyClock)}

(* ------------- one concurrent pair seen by both participants ------------ *)
\* the difference of the hashes of the two operations: the timestamps that
\* make the priorities equal lie this far apart
TieOffset ==
    hashString(Runes("B") \o generateOperationID("B", 1))
        - hashString(Runes("A") \o generateOperationID("A", 0))

\* time.Now().UnixNano() of A's operation: just below, at and just above the
\* value that gives both operations the same priority
TieTimes == {Now(1) + TieOffset + d : d \in {0 - 1, 0, 1}}

\* what participant p hands to performOperationalTransformation
LocalOf(p) == IF p = "A" THEN tie.a ELSE tie.b

RemoteOf(p) == IF p = "A" THEN tie.b ELSE tie.a

InitTie ==
    /\ sm = [p \in Users |-> NewSyncManager(p)]
    /\ created = [p \in Users |-> {}]
    /\ net = {}
    /\ nextID = 0
    /\ delivered = [p \in Users |-> 0]
    /\ resets = 0
    /\ ret = [user |-> "", call |-> "init", err |-> "nil", at |-> "", arg |-> <<>>]
    /\ tp = [done |-> FALSE]
    /\ hist = [on |-> FALSE]
    /\ thr = [on |-> FALSE]
    /\ join = [on |-> FALSE]
    /\ clk = [on |-> FALSE]
    /\ it = [done |-> FALSE]
    /\ hs = [on |-> FALSE]
    /\ lk = [on |-> FALSE]
    /\ rpc = [on |-> FALSE]
    /\ ses = [on |-> FALSE]
    /\ \E a0 \in ValidOps(TPDoc, "A", <<"x">>, 0), b \in ValidOps(TPDoc, "B", <<"y">>, 1),
          ts \in TieTimes :
          LET a == [a0 EXCEPT !.Timestamp = ts]
          IN  tie = [done |-> {}, a |-> a, b |-> b,
                     at |-> [p \in Users |->
                               IF p = "A" THEN [remote |-> b, locals |-> <<a>>]
                                          ELSE [remote |-> a, locals |-> <<b>>]]]

\* participant p, with its own operation pending, receives the other one
transform_at(p) ==
    /\ p \notin tie.done
    /\ tie' = [tie EXCEPT !.done = @ \cup {p},
                          !.at[p] = performOperationalTransformation(RemoteOf(p), <<LocalOf(p)>>)]
    /\ UNCHANGED <<sm, created, net, nextID, delivered, resets, ret, tp, hist, thr, join, clk, it, hs, lk, rpc, ses>>

NextTie == \E p \in Users : transform_at(p)

SpecTie == InitTie /\ [][NextTie]_vars

\* at both participants w is left as it is and o is transformed against it
Wins(w, o) ==
    /\ tie.at[w.UserID].locals = <<w>>
    /\ tie.at[o.UserID].remote = w
    /\ \E f \in BOOLEAN : tie.at[w.UserID].remote = inclusionTransform(o, w, f)
    /\ \E f \in BOOLEAN : tie.at[o.UserID].locals = <<inclusionTransform(o, w, f)>>

\* C18: of two concurrent operations the one with the lower priority wins at
\* both participants and the other one is transformed against it; with equal
\* priorities both participants still choose the same winner.
C18_SameWinner ==
    tie.done = Users =>
        LET pa == calculatePriority(tie.a)
            pb == calculatePriority(tie.b)
        IN  /\ pa < pb => Wins(tie.a, tie.b)
            /\ pb < pa => Wins(tie.b, tie.a)
            /\ pa = pb => Wins(tie.a, tie.b) \/ Wins(tie.b, tie.a)

(* ------------------------- end-to-end scenarios ------------------------ *)
\* two participants start from the same base; U1 is "A", U2 is "B"; each makes
\* its one operation on the base, applies it, and receives the other's once
Hello == <<"H", "E", "L", "L", "O">>

Scenarios ==
    {[base |-> Hello,
      A |-> [Type |-> OpInsert, Position |-> 0, Content |-> <<"A">>, Length |-> 1],
      B |-> [Type |-> OpInsert, Position |-> 0, Content |-> <<"B">>, Length |-> 1]],
     [base |-> <<"a", "b", "c", "d", "e", "f">>,
      A |-> [Type |-> OpInsert, Position |-> 2, Content |-> <<"X">>, Length |-> 1],
      B |-> [Type |-> OpDelete, Position |-> 3, Content |-> <<"d", "e">>, Length |-> 2]],
     [base |-> <<"0", "1", "2", "3", "4", "5", "6", "7", "8", "9">>,
      A |-> [Type |-> OpDelete, Position |-> 2, Content |-> <<"2", "3", "4", "5">>, Length |-> 4],
      B |-> [Type |-> OpDelete, Position |-> 3, Content |-> <<"3", "4", "5", "6">>, Length |-> 4]],
     [base |-> <<"a", "b", "c", "d", "e", "f", "g">>,
      A |-> [Type |-> OpDelete, Position |-> 1, Content |-> <<"b", "c", "d", "e">>, Length |-> 4],
      B |-> [Type |-> OpInsert, Position |-> 3, Content |-> <<"X">>, Length |-> 1]]}

InitScen ==
    /\ \E s \in Scenarios :
          sm = [p \in Users |-> InitializeDocument(NewSyncManager(p), s.base)]
    /\ created = [p \in Users |-> {}]
    /\ net = {}
    /\ nextID = 0
    /\ delivered = [p \in Users |-> 0]
    /\ resets = 0
    /\ ret = [user |-> "", call |-> "init", err |-> "nil", at |-> "", arg |-> <<>>]
    /\ tp = [done |-> FALSE]
    /\ hist = [on |-> FALSE]
    /\ thr = [on |-> FALSE]
    /\ tie = [done |-> FALSE]
    /\ join = [on |-> FALSE]
    /\ clk = [on |-> FALSE]
    /\ it = [done |-> FALSE]
    /\ hs = [on |-> FALSE]
    /\ lk = [on |-> FALSE]
    /\ rpc = [on |-> FALSE]
    /\ ses = [on |-> FALSE]

\* participant p still has the untouched base s.base and has made nothing
OnBase(p, s) ==
    /\ sm[p].document.Content = s.base
    /\ sm[p].document.Operations = <<>>
    /\ sm[p].localBuffer = <<>>
    /\ created[p] = {}

NextScen ==
    \/ \E s \in Scenarios, p \in Users :
          /\ OnBase(p, s)
          /\ s[p].Type = OpInsert
          /\ make_insert(p, s[p].Position, s[p].Content)
    \/ \E s \in Scenarios, p \in Users :
          /\ OnBase(p, s)
          /\ s[p].Type = OpDelete
          /\ make_delete(p, s[p].Position, s[p].Length)
    \/ \E p \in Users : \E op \in created[p] : apply_local(p, op)
    \/ \E p \in Users : \E op \in net :
          /\ op.ID \notin IDsOf(sm[p].remoteBuffer)
          /\ apply_remote(p, op)

SpecScen == InitScen /\ [][NextScen]_vars

\* op is the operation the scenario gives to its maker
IsScenOp(op, s) ==
    /\ op.Type = s[op.UserID].Type
    /\ op.Position = s[op.UserID].Position
    /\ op.Content = s[op.UserID].Content
    /\ op.Length = s[op.UserID].Length
    /\ op.VectorClock = [u \in {op.UserID} |-> 1]

\* both operations of scenario s were made on the base and applied by their
\* makers, and each participant has received the other's
Reconciled(s, a, b) ==
    /\ a \in net /\ a.UserID = "A" /\ IsScenOp(a, s)
    /\ b \in net /\ b.UserID = "B" /\ IsScenOp(b, s)
    /\ \A p \in Users : delivered[p] = 1

BothHave(content) ==
    \A p \in Users :
       /\ sm[p].document.Content = content
       /\ Len(sm[p].document.Operations) = 2

\* C19: from base "HELLO" with Insert(0,"A") by U1 and Insert(0,"B") by U2,
\* when U1 has the lower priority, both apply_remote calls succeed and both
\* participants end with "ABHELLO".
C19_ConcurrentInserts ==
    \A s \in Scenarios, a \in net, b \in net :
       (/\ s.base = Hello
        /\ Reconciled(s, a, b)
        /\ calculatePriority(a) < calculatePriority(b))
       => /\ BothHave(<<"A", "B">> \o Hello)
          /\ ret.err = "nil"

\* C20: from base "abcdefg" with Delete(1,4) by U1 and Insert(3,"X") by U2,
\* after each has received the other's operation both participants have "aXfg".
C20_InsertInsideDelete ==
    \A s \in Scenarios, a \in net, b \in net :
       (/\ s.base = <<"a", "b", "c", "d", "e", "f", "g">>
        /\ Reconciled(s, a, b))
       => BothHave(<<"a", "X", "f", "g">>)

(* --------------------------- a late-joining peer ------------------------ *)
\* A and B work as in SpecConv on the base join.base; at some moment the new
\* participant Joiner calls set_document(base), asks one of them for
\* get_operations_since(empty clock) and hands the answer, operation by
\* operation, to its own apply_remote
Joiner == "C"

InitJoin ==
    /\ created = [p \in Users |-> {}]
    /\ net = {}
    /\ nextID = 0
    /\ delivered = [p \in Users |-> 0]
    /\ resets = 0
    /\ ret = [user |-> "", call |-> "init", err |-> "nil", at |-> "", arg |-> <<>>]
    /\ tp = [done |-> FALSE]
    /\ hist = [on |-> FALSE]
    /\ thr = [on |-> FALSE]
    /\ tie = [done |-> FALSE]
    /\ clk = [on |-> FALSE]
    /\ it = [done |-> FALSE]
    /\ hs = [on |-> FALSE]
    /\ lk = [on |-> FALSE]
    /\ rpc = [on |-> FALSE]
    /\ ses = [on |-> FALSE]
    /\ \E c \in InitContents :
          /\ sm = [p \in Users |-> InitializeDocument(NewSyncManager(p), c)]
          /\ join = [on |-> TRUE, base |-> c, started |-> FALSE, from |-> "",
                     todo |-> <<>>, want |-> <<>>, err |-> "nil",
                     sm |-> NewSyncManager(Joiner)]

\* set_document(base) on the joiner and get_operations_since(empty) on peer p
join_start(p) ==
    /\ ~join.started
    /\ join' = [join EXCEPT !.started = TRUE, !.from = p,
                            !.todo = GetOperationsSince(sm[p], EmptyClock),
                            !.want = sm[p].document.Content,
                            !.sm = InitializeDocument(join.sm, join.base)]
    /\ UNCHANGED <<sm, created, net, nextID, delivered, resets, ret, tp, hist, thr, tie, clk, it, hs, lk, rpc, ses>>

\* the joiner hands the next operation of the answer to apply_remote
join_replay ==
    /\ join.started
    /\ join.todo # <<>>
    /\ LET r == ApplyRemoteOperation(join.sm, Head(join.todo))
       IN  join' = [join EXCEPT !.sm = r.sm, !.todo = Tail(join.todo),
                                !.err = IF join.err = "nil" THEN r.err ELSE join.err]
    /\ UNCHANGED <<sm, created, net, nextID, delivered, resets, ret, tp, hist, thr, tie, clk, it, hs, lk, rpc, ses>>

NextJoin ==
    \/ NextConv
    \/ \E p \in Users : join_start(p)
    \/ join_replay

SpecJoin == InitJoin /\ [][NextJoin]_vars

\* C21: a fresh participant that calls set_document(C) and replays, in order,
\* a peer's get_operations_since(empty clock) through apply_remote ends with
\* the content the peer had.
C21_CatchUp ==
    (join.started /\ join.todo = <<>>) => join.sm.document.Content = join.want

(* ------------------ the order of a participant's own operations --------- *)
\* as SpecAck, but A starts with one operation of its own made and applied on
\* the base, still pending; only A acknowledges and cleans up
EarlierOp(m) == CreateInsertOperation(m, 0, <<"x">>, Now(0 - 1), 0 - 1)

InitOrder ==
    /\ \E c \in InitContents :
          LET base(p) == InitializeDocument(NewSyncManager(p), c)
              made    == EarlierOp(base("A"))
          IN  sm = [p \in Users |->
                      IF p = "A" THEN ApplyLocalOperation(made.sm, made.op).sm ELSE base(p)]
    /\ created = [p \in Users |-> {}]
    /\ net = {}
    /\ nextID = 0
    /\ delivered = [p \in Users |-> 0]
    /\ resets = 0
    /\ ret = [user |-> "", call |-> "init", err |-> "nil", at |-> "", arg |-> <<>>]
    /\ tp = [done |-> FALSE]
    /\ hist = [on |-> FALSE]
    /\ thr = [on |-> FALSE]
    /\ tie = [done |-> FALSE]
    /\ join = [on |-> FALSE]
    /\ clk = [on |-> FALSE]
    /\ it = [done |-> FALSE]
    /\ hs = [on |-> FALSE]
    /\ lk = [on |-> FALSE]
    /\ rpc = [on |-> FALSE]
    /\ ses = [on |-> FALSE]

NextOrder ==
    \/ NextConv
    \/ \E opID \in AckIDs("A") \cup {generateOperationID("A", 0 - 1)} : acknowledge("A", opID)
    \/ cleanup("A")

SpecOrder == InitOrder /\ [][NextOrder]_vars

\* the operations of participant p in a log, by the value of p's own clock
\* entry they were made with: the n-th operation p made carries n
OwnRanks(p, ops) ==
    LET own == SelectSeq(ops, LAMBDA op : op.UserID = p)
    IN  [k \in 1..Len(own) |-> Get(own[k].VectorClock, p)]

\* C22: in the applied log of every participant its own operations stand in
\* the order in which it handed them to apply_local (which is here the order
\* in which it made them).
C22_OwnOrder ==
    \A p \in Users :
       LET ranks == OwnRanks(p, sm[p].document.Operations)
       IN  \A i \in 1..Len(ranks), j \in 1..Len(ranks) : i < j => ranks[i] < ranks[j]

(* ------------------------------ vector clocks --------------------------- *)
\* three clocks built from the empty clock by the operations of the code:
\* SetUserID writes an explicit zero, Increment adds one, Update merges
ClockNames == {"a", "b", "c"}

SetUserID(vc, userID) == [u \in DOMAIN vc \cup {userID} |-> IF u = userID THEN 0 ELSE vc[u]]

InitClock ==
    /\ sm = [p \in Users |-> NewSyncManager(p)]
    /\ created = [p \in Users |-> {}]
    /\ net = {}
    /\ nextID = 0
    /\ delivered = [p \in Users |-> 0]
    /\ resets = 0
    /\ ret = [user |-> "", call |-> "init", err |-> "nil", at |-> "", arg |-> <<>>]
    /\ tp = [done |-> FALSE]
    /\ hist = [on |-> FALSE]
    /\ thr = [on |-> FALSE]
    /\ tie = [done |-> FALSE]
    /\ join = [on |-> FALSE]
    /\ clk = [k \in ClockNames |-> EmptyClock]
    /\ it = [done |-> FALSE]
    /\ hs = [on |-> FALSE]
    /\ lk = [on |-> FALSE]
    /\ rpc = [on |-> FALSE]
    /\ ses = [on |-> FALSE]

clock_init(k, userID) ==
    /\ clk' = [clk EXCEPT ![k] = SetUserID(clk[k], userID)]
    /\ UNCHANGED <<sm, created, net, nextID, delivered, resets, ret, tp, hist, thr, tie, join, it, hs, lk, rpc, ses>>

clock_increment(k, userID) ==
    /\ Get(clk[k], userID) < MaxClock
    /\ clk' = [clk EXCEPT ![k] = Increment(clk[k], userID)]
    /\ UNCHANGED <<sm, created, net, nextID, delivered, resets, ret, tp, hist, thr, tie, join, it, hs, lk, rpc, ses>>

clock_update(k, other) ==
    /\ clk' = [clk EXCEPT ![k] = Update(clk[k], clk[other])]
    /\ UNCHANGED <<sm, created, net, nextID, delivered, resets, ret, tp, hist, thr, tie, join, it, hs, lk, rpc, ses>>

NextClock ==
    \/ \E k \in ClockNames, u \in PeerNames : clock_init(k, u)
    \/ \E k \in ClockNames, u \in PeerNames : clock_increment(k, u)
    \/ \E k \in ClockNames, other \in ClockNames : clock_update(k, other)

SpecClock == InitClock /\ [][NextClock]_vars

\* a[p] < b[p] for some participant p, a missing entry read as 0
StrictSomewhere(a, b) == \E u \in PeerNames : Get(a, u) < Get(b, u)

\* C23: happens_before(a, b) is true exactly when a[p] <= b[p] for every
\* participant and a[p] < b[p] for at least one, a missing entry read as 0,
\* whatever the key sets; it is irreflexive, antisymmetric and transitive.
C23_HappensBefore ==
    /\ \A x \in ClockNames, y \in ClockNames :
          /\ HappensBefore(clk[x], clk[y])
                <=> (LeqClock(clk[x], clk[y]) /\ StrictSomewhere(clk[x], clk[y]))
          /\ ~HappensBefore(clk[x], clk[x])
          /\ ~(HappensBefore(clk[x], clk[y]) /\ HappensBefore(clk[y], clk[x]))
    /\ (HappensBefore(clk["a"], clk["b"]) /\ HappensBefore(clk["b"], clk["c"]))
          => HappensBefore(clk["a"], clk["c"])

\* a before b before c, where a and b have different key sets of the same
\* size and a holds an explicit zero
C23_Witness ==
    /\ HappensBefore(clk["a"], clk["b"])
    /\ HappensBefore(clk["b"], clk["c"])
    /\ DOMAIN clk["a"] # DOMAIN clk["b"]
    /\ Cardinality(DOMAIN clk["a"]) = Cardinality(DOMAIN clk["b"])
    /\ \E u \in DOMAIN clk["a"] : clk["a"][u] = 0

\* a[p] = b[p] for every participant p, a missing entry read as 0
SameClock(a, b) == \A u \in PeerNames : Get(a, u) = Get(b, u)

\* C24: equals(a, b) is true exactly when a[p] = b[p] for every participant,
\* a missing entry read as 0, whatever the key sets; equals is symmetric.
C24_Equals ==
    \A x \in ClockNames, y \in ClockNames :
       /\ Equals(clk[x], clk[y]) <=> SameClock(clk[x], clk[y])
       /\ Equals(clk[x], clk[y]) <=> Equals(clk[y], clk[x])

\* the number of the four relations that hold between a and b
Relations(a, b) ==
    (IF HappensBefore(a, b) THEN 1 ELSE 0) + (IF HappensBefore(b, a) THEN 1 ELSE 0)
    + (IF Equals(a, b) THEN 1 ELSE 0) + (IF IsConcurrent(a, b) THEN 1 ELSE 0)

\* C25: concurrent(a, b) holds exactly when neither clock happens-before the
\* other and the clocks are not equal, a missing entry read as 0; exactly one
\* of a before b, b before a, a equals b, a concurrent b holds; concurrent is
\* symmetric and identical clocks are never concurrent.
C25_Concurrent ==
    \A x \in ClockNames, y \in ClockNames :
       /\ IsConcurrent(clk[x], clk[y])
             <=> /\ ~(LeqClock(clk[x], clk[y]) /\ StrictSomewhere(clk[x], clk[y]))
                 /\ ~(LeqClock(clk[y], clk[x]) /\ StrictSomewhere(clk[y], clk[x]))
                 /\ ~SameClock(clk[x], clk[y])
       /\ Relations(clk[x], clk[y]) = 1
       /\ IsConcurrent(clk[x], clk[y]) <=> IsConcurrent(clk[y], clk[x])
       /\ clk[x] = clk[y] => ~IsConcurrent(clk[x], clk[y])

(* ---------------------- the canonical transformation -------------------- *)
\* the remote operation r wins against the pending operation l: the lower
\* priority wins
RemoteWins(r, l) == calculatePriority(r) < calculatePriority(l)

\* r transformed serially against the pending operations, in order
RECURSIVE CanonicalRemote(_, _, _)
CanonicalRemote(r, cur, ls) ==
    IF ls = <<>> THEN cur
    ELSE CanonicalRemote(r, inclusionTransform(cur, Head(ls), RemoteWins(r, Head(ls))), Tail(ls))

\* each pending operation transformed against r with the opposite winner
CanonicalLocals(r, ls) ==
    [k \in 1..Len(ls) |-> inclusionTransform(ls[k], r, ~RemoteWins(r, ls[k]))]

\* every pending operation is concurrent with r and has another priority
Contested(r, ls) ==
    \A k \in 1..Len(ls) :
       /\ ~LeqClock(r.VectorClock, ls[k].VectorClock)
       /\ ~LeqClock(ls[k].VectorClock, r.VectorClock)
       /\ calculatePriority(r) # calculatePriority(ls[k])

\* C26: the transformation done by apply_remote is the canonical one: the
\* applied remote operation is r transformed serially against the pending
\* operations l1..ln, and each new pending operation is li transformed against
\* r with the opposite winner (stated for pending operations concurrent with
\* r and of another priority, where the winner is not in doubt).
C26_Canonical ==
    [][\A p \in Users :
          (/\ ret'.call = "apply_remote"
           /\ ret'.user = p
           /\ sm[p].localBuffer # <<>>
           /\ Contested(ret'.arg, sm[p].localBuffer))
          => performOperationalTransformation(ret'.arg, sm[p].localBuffer)
               = [remote |-> CanonicalRemote(ret'.arg, ret'.arg, sm[p].localBuffer),
                  locals |-> CanonicalLocals(ret'.arg, sm[p].localBuffer)]]_vars

(* ---------------------- one inclusion transform ------------------------- *)
\* the operations handed to inclusionTransform: any kind, any position and
\* length from 0, an insertion carrying as many runes as its length
Filler(length) == [k \in 1..length |-> "x"]

ITOps(userID, n) ==
    {TPOp(type, position, Filler(length), length, userID, n) :
        type \in {OpInsert, OpDelete, OpRetain}, position \in 0..MaxPos, length \in 0..MaxLen}

InitIT ==
    /\ sm = [p \in Users |-> NewSyncManager(p)]
    /\ created = [p \in Users |-> {}]
    /\ net = {}
    /\ nextID = 0
    /\ delivered = [p \in Users |-> 0]
    /\ resets = 0
    /\ ret = [user |-> "", call |-> "init", err |-> "nil", at |-> "", arg |-> <<>>]
    /\ tp = [done |-> FALSE]
    /\ hist = [on |-> FALSE]
    /\ thr = [on |-> FALSE]
    /\ tie = [done |-> FALSE]
    /\ join = [on |-> FALSE]
    /\ clk = [on |-> FALSE]
    /\ hs = [on |-> FALSE]
    /\ lk = [on |-> FALSE]
    /\ rpc = [on |-> FALSE]
    /\ ses = [on |-> FALSE]
    /\ \E op1 \in ITOps("A", 0), op2 \in ITOps("B", 1), op1HasPriority \in BOOLEAN :
          it = [done |-> FALSE, op1 |-> op1, op2 |-> op2,
                op1HasPriority |-> op1HasPriority, result |-> op1]

transform ==
    /\ ~it.done
    /\ it' = [it EXCEPT !.done = TRUE,
                        !.result = inclusionTransform(it.op1, it.op2, it.op1HasPriority)]
    /\ UNCHANGED <<sm, created, net, nextID, delivered, resets, ret, tp, hist, thr, tie, join, clk, hs, lk, rpc, ses>>

SpecIT == InitIT /\ [][transform]_vars

\* the four rule tables: position and length of op transformed against
\* `against`, with L = against.length and p = against.position
RuleInsertInsert(op, against, op_wins) ==
    IF against.Position < op.Position
    THEN [position |-> op.Position + against.Length, length |-> op.Length]
    ELSE IF against.Position = op.Position /\ ~op_wins
    THEN [position |-> op.Position + against.Length, length |-> op.Length]
    ELSE [position |-> op.Position, length |-> op.Length]

RuleInsertDelete(op, against) ==
    LET p == against.Position
        L == against.Length
    IN  IF p + L <= op.Position
        THEN [position |-> op.Position - L, length |-> op.Length]
        ELSE IF p <= op.Position /\ op.Position < p + L
        THEN [position |-> p, length |-> op.Length]
        ELSE [position |-> op.Position, length |-> op.Length]

RuleDeleteInsert(op, against) ==
    LET p == against.Position
        L == against.Length
    IN  IF p <= op.Position
        THEN [position |-> op.Position + L, length |-> op.Length]
        ELSE IF op.Position < p /\ p < op.Position + op.Length
        THEN [position |-> op.Position, length |-> op.Length + L]
        ELSE [position |-> op.Position, length |-> op.Length]

RuleDeleteDelete(op, against) ==
    LET p == against.Position
        L == against.Length
    IN  IF p + L <= op.Position
        THEN [position |-> op.Position - L, length |-> op.Length]
        ELSE IF op.Position + op.Length <= p
        THEN [position |-> op.Position, length |-> op.Length]
        ELSE IF p <= op.Position /\ p + L >= op.Position + op.Length
        THEN [position |-> p, length |-> 0]
        ELSE IF op.Position <= p /\ op.Position + op.Length >= p + L
        THEN [position |-> op.Position, length |-> op.Length - L]
        ELSE LET remaining ==
                     IF p < op.Position
                     THEN [position |-> p, length |-> op.Length - (p + L - op.Position)]
                     ELSE [position |-> op.Position,
                           length |-> op.Length - (op.Position + op.Length - p)]
             IN  [remaining EXCEPT !.length = IF @ < 0 THEN 0 ELSE @]

Rule(op, against, op_wins) ==
    CASE op.Type = OpInsert /\ against.Type = OpInsert -> RuleInsertInsert(op, against, op_wins)
      [] op.Type = OpInsert /\ against.Type = OpDelete -> RuleInsertDelete(op, against)
      [] op.Type = OpDelete /\ against.Type = OpInsert -> RuleDeleteInsert(op, against)
      [] op.Type = OpDelete /\ against.Type = OpDelete -> RuleDeleteDelete(op, against)

EditKinds == {OpInsert, OpDelete}

\* C27: for every pair of Insert/Delete operations with non-negative
\* positions and lengths, inclusionTransform returns the operation with the
\* position and length given by the four rule tables.
C27_RuleTables ==
    (it.done /\ it.op1.Type \in EditKinds /\ it.op2.Type \in EditKinds)
    => LET rule == Rule(it.op1, it.op2, it.op1HasPriority)
       IN  /\ it.result.Position = rule.position
           /\ it.result.Length = rule.length

\* a deletion transformed against an insertion inside its range, and grown
C27_Witness ==
    /\ it.done
    /\ it.op1.Type = OpDelete
    /\ it.op2.Type = OpInsert
    /\ it.op1.Position < it.op2.Position
    /\ it.op2.Position < it.op1.Position + it.op1.Length
    /\ it.result.Length = it.op1.Length + it.op2.Length
    /\ it.op2.Length > 0

\* C28: the inclusion transform is total and keeps operations well formed:
\* position >= 0 and length >= 0, the same kind, id, origin, wall time and
\* clock as op, and for an Insert a length equal to the length of its content.
C28_WellFormed ==
    it.done
    => /\ it.result.Position >= 0
       /\ it.result.Length >= 0
       /\ it.result.Type = it.op1.Type
       /\ it.result.ID = it.op1.ID
       /\ it.result.UserID = it.op1.UserID
       /\ it.result.Timestamp = it.op1.Timestamp
       /\ it.result.VectorClock = it.op1.VectorClock
       /\ it.result.Type = OpInsert => it.result.Length = Len(it.result.Content)

\* an insertion inside a deleted range, moved to the left edge of the range
C28_Witness ==
    /\ it.done
    /\ it.op1.Type = OpInsert
    /\ it.op2.Type = OpDelete
    /\ it.op2.Position < it.op1.Position
    /\ it.op1.Position < it.op2.Position + it.op2.Length
    /\ it.result.Position = it.op2.Position

(* ----------------------- the document and its log ----------------------- *)
\* the applied log folded onto the content S under the apply function
RECURSIVE FoldLog(_, _)
FoldLog(S, ops) == IF ops = <<>> THEN S ELSE FoldLog(Apply(S, Head(ops)), Tail(ops))

\* C29: in every reachable state, also after set_document with a non-empty
\* content, the document content equals the fold of the applied log, read in
\* stored order, onto the empty string.
C29_ContentIsFold ==
    \A p \in Users : sm[p].document.Content = FoldLog(<<>>, sm[p].document.Operations)

\* the largest entry for participant u among the clocks of ops, 0 when none
MaxEntry(ops, u) ==
    LET entries == {Get(ops[k].VectorClock, u) : k \in 1..Len(ops)} \cup {0}
    IN  CHOOSE n \in entries : \A m \in entries : m <= n

\* C30: in every reachable state the document clock equals the componentwise
\* maximum of the clocks of the operations in the applied log.
C30_ClockIsLogMax ==
    \A p \in Users : \A u \in PeerNames :
       Get(sm[p].document.VectorClock, u) = MaxEntry(sm[p].document.Operations, u)

(* --------------------------- operation clocks --------------------------- *)
\* C31: every operation in a pending buffer or an applied log carries a
\* vector clock whose entry for its origin is at least 1, the operations the
\* editor bridge builds from a document_operation message included.
C31_OriginClocked ==
    \A p \in Users :
       /\ \A k \in 1..Len(sm[p].localBuffer) :
             Get(sm[p].localBuffer[k].VectorClock, sm[p].localBuffer[k].UserID) >= 1
       /\ \A k \in 1..Len(sm[p].document.Operations) :
             Get(sm[p].document.Operations[k].VectorClock,
                 sm[p].document.Operations[k].UserID) >= 1

(* ------------------------------- callbacks ------------------------------ *)
\* the callbacks one handler call invokes, each with the locks its thread
\* holds at that moment (the handlers are installed by the bridge)
DocumentLock == "document.mutex"
TransformLock == "transformMutex"

\* applyOperationToDocument calls onDocumentChanged before its deferred unlock,
\* when the operation was applied and logged
DocumentChangedCalls(d, op, held) ==
    IF applyOperationToDocument(d, op).doc.Version # d.Version
    THEN {[callback |-> "document_changed", locks |-> held \cup {DocumentLock}]}
    ELSE {}

RECURSIVE ReapplyCalls(_, _, _)
ReapplyCalls(d, ops, held) ==
    IF ops = <<>> THEN {}
    ELSE LET r == applyOperationToDocument(d, Head(ops))
         IN  DocumentChangedCalls(d, Head(ops), held)
             \cup (IF r.err # "nil" THEN {} ELSE ReapplyCalls(r.doc, Tail(ops), held))

\* performOperationalTransformation calls onConflictResolved for every
\* concurrent pair of the sorted operations
ConflictCalls(remoteOp, localOps, held) ==
    LET sortedOps == topologicalSort(<<remoteOp>> \o localOps)
    IN  IF \E i \in 1..Len(sortedOps), j \in 1..Len(sortedOps) :
              /\ i < j
              /\ ~HappensBefore(sortedOps[i].VectorClock, sortedOps[j].VectorClock)
              /\ ~HappensBefore(sortedOps[j].VectorClock, sortedOps[i].VectorClock)
              /\ IsConcurrent(sortedOps[i].VectorClock, sortedOps[j].VectorClock)
        THEN {[callback |-> "conflict_resolved", locks |-> held]}
        ELSE {}

ApplyLocalCalls(m, op) == DocumentChangedCalls(m.document, op, {})

\* ApplyRemoteOperation holds transformMutex until it returns
ApplyRemoteCalls(m, remoteOp) ==
    LET held == {TransformLock}
        t    == performOperationalTransformation(remoteOp, m.localBuffer)
        d1   == undoLocalOperations(m.document, m.localBuffer)
        r2   == applyOperationToDocument(d1, t.remote)
    IN  ConflictCalls(remoteOp, m.localBuffer, held)
        \cup DocumentChangedCalls(d1, t.remote, held)
        \cup (IF r2.err # "nil" THEN {} ELSE ReapplyCalls(r2.doc, t.locals, held))
        \cup (IF ApplyRemoteOperation(m, remoteOp).err = "nil"
              THEN {[callback |-> "op_applied", locks |-> held]} ELSE {})

\* C32: every callback (document_changed, op_applied, conflict_resolved) is
\* invoked while the calling thread holds none of the engine's locks.
C32_CallbacksUnlocked ==
    [][\A p \in Users :
          /\ (ret'.user = p /\ ret'.call = "apply_local")
                => \A c \in ApplyLocalCalls(sm[p], ret'.arg) : c.locks = {}
          /\ (ret'.user = p /\ ret'.call = "apply_remote")
                => \A c \in ApplyRemoteCalls(sm[p], ret'.arg) : c.locks = {}]_vars

(* ------------------------- the hash as an int64 ------------------------- *)
\* an int64 is kept as four 16-bit limbs, lowest first, in two's complement
MaxRunes == 13

Base == 256 * 256

Word(n) == <<n % Base, (n \div Base) % Base, 0, 0>>

IsNegative(w) == w[4] >= Base \div 2

\* w * k + c, wrapping at 64 bits (k and c small)
MulAdd(w, k, c) ==
    LET t1 == w[1] * k + c
        t2 == w[2] * k + (t1 \div Base)
        t3 == w[3] * k + (t2 \div Base)
        t4 == w[4] * k + (t3 \div Base)
    IN  <<t1 % Base, t2 % Base, t3 % Base, t4 % Base>>

\* a + b, wrapping at 64 bits
Add64(a, b) ==
    LET t1 == a[1] + b[1]
        t2 == a[2] + b[2] + (t1 \div Base)
        t3 == a[3] + b[3] + (t2 \div Base)
        t4 == a[4] + b[4] + (t3 \div Base)
    IN  <<t1 % Base, t2 % Base, t3 % Base, t4 % Base>>

\* -w, wrapping at 64 bits
Negate(w) == Add64([k \in 1..4 |-> (Base - 1) - w[k]], Word(1))

\* one iteration of the loop: hash = ((hash << 5) + hash) + int64(c)
HashStep(hash, c) == MulAdd(hash, 33, c)

\* what hashString returns when the loop has ended with this hash
HashResult(hash) == IF IsNegative(hash) THEN Negate(hash) ELSE hash

\* the runes hashed, and time.Now().UnixNano() on 2026-11-02 as a word
HashRunes == {48, 65}
WallTime == <<32768, 21952, 14493, 6372>>

InitHash ==
    /\ sm = [p \in Users |-> NewSyncManager(p)]
    /\ created = [p \in Users |-> {}]
    /\ net = {}
    /\ nextID = 0
    /\ delivered = [p \in Users |-> 0]
    /\ resets = 0
    /\ ret = [user |-> "", call |-> "init", err |-> "nil", at |-> "", arg |-> <<>>]
    /\ tp = [done |-> FALSE]
    /\ hist = [on |-> FALSE]
    /\ thr = [on |-> FALSE]
    /\ tie = [done |-> FALSE]
    /\ join = [on |-> FALSE]
    /\ clk = [on |-> FALSE]
    /\ it = [done |-> FALSE]
    /\ hs = [s |-> <<>>, hash |-> Word(5381)]
    /\ lk = [on |-> FALSE]
    /\ rpc = [on |-> FALSE]
    /\ ses = [on |-> FALSE]

hash_rune(c) ==
    /\ Len(hs.s) < MaxRunes
    /\ hs' = [s |-> Append(hs.s, c), hash |-> HashStep(hs.hash, c)]
    /\ UNCHANGED <<sm, created, net, nextID, delivered, resets, ret, tp, hist, thr, tie, join, clk, it, lk, rpc, ses>>

NextHash == \E c \in HashRunes : hash_rune(c)

SpecHash == InitHash /\ [][NextHash]_vars

\* the djb2 value of the string reduced to 32 bits: the two low limbs of the
\* running hash, which wraps at a multiple of 2^32
Djb2Of32(hash) == <<hash[1], hash[2], 0, 0>>

\* C33: the hash component of the priority equals the djb2 value reduced to
\* 32 bits (so it lies in [0, 2^32)), it is never negative, and its sum with
\* the wall time does not wrap around the signed 64-bit range.
C33_Hash32 ==
    LET hash == HashResult(hs.hash)
    IN  /\ hash = Djb2Of32(hs.hash)
        /\ ~IsNegative(hash)
        /\ ~IsNegative(Add64(hash, WallTime))

(* ------------------- a remote operation and the content ----------------- *)
\* the operation is in bounds on the content S
InBounds(S, op) ==
    /\ op.Type \in {OpInsert, OpDelete}
    /\ op.Position >= 0
    /\ IF op.Type = OpInsert THEN op.Position <= Len(S)
       ELSE op.Position + op.Length <= Len(S) /\ op.Length >= 1

\* C34: with an empty pending buffer, apply_remote(r) for an in-bounds r
\* gives content = apply(content before, r) and version = version before + 1.
C34_RemoteOnEmptyBuffer ==
    [][\A p \in Users :
          (/\ ret'.call = "apply_remote"
           /\ ret'.user = p
           /\ sm[p].localBuffer = <<>>
           /\ InBounds(sm[p].document.Content, ret'.arg))
          => /\ sm'[p].document.Content = Apply(sm[p].document.Content, ret'.arg)
             /\ sm'[p].document.Version = sm[p].document.Version + 1]_vars

\* C35: a remote operation r that causally follows the one pending local
\* operation l is not transformed against l, and after apply_remote(r) the
\* receiver has the content r's origin had after making and applying r
\* (two operations in all, so the origin's content has not changed since).
C35_CausalRemote ==
    [][\A p \in Users :
          (/\ ret'.call = "apply_remote"
           /\ ret'.user = p
           /\ Len(sm[p].localBuffer) = 1
           /\ HappensBefore(sm[p].localBuffer[1].VectorClock, ret'.arg.VectorClock))
          => /\ performOperationalTransformation(ret'.arg, sm[p].localBuffer).remote = ret'.arg
             /\ sm'[p].document.Content = sm[ret'.arg.UserID].document.Content]_vars

(* --------------------------- failing calls ------------------------------ *)
\* C36: apply_remote is atomic on failure: when it returns an error the
\* document content, version, applied log, pending buffer and manager clock
\* are the same as before the call.
C36_RemoteFailureAtomic ==
    [][\A p \in Users :
          (ret'.call = "apply_remote" /\ ret'.user = p /\ ret'.err # "nil")
          => /\ sm'[p].document.Content = sm[p].document.Content
             /\ sm'[p].document.Version = sm[p].document.Version
             /\ sm'[p].document.Operations = sm[p].document.Operations
             /\ sm'[p].localBuffer = sm[p].localBuffer
             /\ sm'[p].vectorClock = sm[p].vectorClock]_vars

\* C37: apply_local is atomic on failure: when it returns an error the
\* pending buffer, document, clock and history are unchanged; so every
\* operation in a pending buffer is also in the applied log.
C37_LocalFailureAtomic ==
    [][/\ \A p \in Users :
             (ret'.call = "apply_local" /\ ret'.user = p /\ ret'.err # "nil")
             => /\ sm'[p].localBuffer = sm[p].localBuffer
                /\ sm'[p].document = sm[p].document
                /\ sm'[p].vectorClock = sm[p].vectorClock
                /\ sm'[p].operationHistory = sm[p].operationHistory
       /\ \A p \in Users :
             IDsOf(sm'[p].localBuffer) \subseteq IDsOf(sm'[p].document.Operations)]_vars

(* ------------------------------ the locks ------------------------------- *)
\* every Lock, RLock, Unlock and RUnlock a call executes, in order; the data
\* only decides how many pending operations apply_remote re-applies and where
\* it returns early
MaxThreads == 3
MaxPending == 1

Threads == 1..MaxThreads

LocalMutex == "localBuffer.mutex"
RemoteMutex == "remoteBuffer.mutex"

Write(lock) == <<[op |-> "Lock", lock |-> lock], [op |-> "Unlock", lock |-> lock]>>
Read(lock) == <<[op |-> "RLock", lock |-> lock], [op |-> "RUnlock", lock |-> lock]>>

RECURSIVE Times(_, _)
Times(n, code) == IF n = 0 THEN <<>> ELSE code \o Times(n - 1, code)

\* as ApplyLocalProgram, taking the transform lock inside the document lock
ApplyLocalProgram_transformInside ==
    Write(LocalMutex)
    \o <<[op |-> "Lock", lock |-> DocumentLock], [op |-> "Lock", lock |-> TransformLock],
         [op |-> "Unlock", lock |-> TransformLock], [op |-> "Unlock", lock |-> DocumentLock]>>

\* localBuffer.Add, then applyOperationToDocument
ApplyLocalProgram == Write(LocalMutex) \o Write(DocumentLock)

\* ApplyRemoteOperation with `pending` operations to re-apply; failAt = 0: no
\* error, 1: the remote operation fails, i + 1: the i-th re-applied one fails
ApplyRemoteProgram(pending, failAt) ==
    <<[op |-> "Lock", lock |-> TransformLock]>>
    \o Write(RemoteMutex) \o Read(LocalMutex)
    \o Write(DocumentLock)
    \o Write(DocumentLock)
    \o (IF failAt = 1 THEN <<>>
        ELSE IF failAt > 1 THEN Times(failAt - 1, Write(DocumentLock))
        ELSE Times(pending, Write(DocumentLock))
             \o Write(LocalMutex) \o Times(pending, Write(LocalMutex)))
    \o <<[op |-> "Unlock", lock |-> TransformLock]>>

\* GetDocumentState and GetOperationsSince
ReadProgram == Read(DocumentLock)

\* CleanupHistory: localBuffer.GetAll, then localBuffer.RemoveApplied
CleanupProgram == Read(LocalMutex) \o Write(LocalMutex)

Calls ==
    {[call |-> "apply_local", code |-> ApplyLocalProgram],
     [call |-> "get_document", code |-> ReadProgram],
     [call |-> "get_operations_since", code |-> ReadProgram],
     [call |-> "cleanup", code |-> CleanupProgram]}
    \cup {[call |-> "apply_remote", code |-> ApplyRemoteProgram(n, f)] :
             n \in 0..MaxPending, f \in {0, 1}}
    \cup {[call |-> "apply_remote", code |-> ApplyRemoteProgram(n, n + 1)] : n \in 1..MaxPending}

Idle == [call |-> "", code |-> <<>>]

InitLocks ==
    /\ sm = [p \in Users |-> NewSyncManager(p)]
    /\ created = [p \in Users |-> {}]
    /\ net = {}
    /\ nextID = 0
    /\ delivered = [p \in Users |-> 0]
    /\ resets = 0
    /\ ret = [user |-> "", call |-> "init", err |-> "nil", at |-> "", arg |-> <<>>]
    /\ tp = [done |-> FALSE]
    /\ hist = [on |-> FALSE]
    /\ thr = [on |-> FALSE]
    /\ tie = [done |-> FALSE]
    /\ join = [on |-> FALSE]
    /\ clk = [on |-> FALSE]
    /\ it = [done |-> FALSE]
    /\ hs = [on |-> FALSE]
    /\ lk = [run |-> [t \in Threads |-> Idle], pc |-> [t \in Threads |-> 0],
             asked |-> [t \in Threads |-> FALSE]]
    /\ rpc = [on |-> FALSE]
    /\ ses = [on |-> FALSE]

\* the instruction thread t executes next
HasNext(t) == lk.pc[t] < Len(lk.run[t].code)
NextOp(t) == lk.run[t].code[lk.pc[t] + 1]

\* thread t holds the lock in the given mode: it has executed the acquire and
\* not yet the release
Holds(t, lock, acquire, release) ==
    \E i \in 1..lk.pc[t] :
       /\ lk.run[t].code[i] = [op |-> acquire, lock |-> lock]
       /\ \A j \in (i + 1)..lk.pc[t] : lk.run[t].code[j] # [op |-> release, lock |-> lock]

HoldsWrite(t, lock) == Holds(t, lock, "Lock", "Unlock")
HoldsRead(t, lock) == Holds(t, lock, "RLock", "RUnlock")

\* a writer that has called Lock and waits for the lock keeps new readers out
AsksWrite(t, lock) == lk.asked[t] /\ HasNext(t) /\ NextOp(t) = [op |-> "Lock", lock |-> lock]

Others(t) == Threads \ {t}

unchangedButLocks ==
    UNCHANGED <<sm, created, net, nextID, delivered, resets, ret, tp, hist, thr, tie, join, clk, it, hs, rpc, ses>>

start_call(t, c) ==
    /\ lk.run[t] = Idle
    /\ lk' = [lk EXCEPT !.run[t] = c]
    /\ unchangedButLocks

\* Lock is called
ask_write(t) ==
    /\ HasNext(t)
    /\ NextOp(t).op = "Lock"
    /\ ~lk.asked[t]
    /\ lk' = [lk EXCEPT !.asked[t] = TRUE]
    /\ unchangedButLocks

\* Lock returns: nobody else holds the lock
take_write(t) ==
    /\ HasNext(t)
    /\ NextOp(t).op = "Lock"
    /\ lk.asked[t]
    /\ \A o \in Others(t) : ~HoldsWrite(o, NextOp(t).lock) /\ ~HoldsRead(o, NextOp(t).lock)
    /\ ~HoldsWrite(t, NextOp(t).lock) /\ ~HoldsRead(t, NextOp(t).lock)
    /\ lk' = [lk EXCEPT !.pc[t] = @ + 1, !.asked[t] = FALSE]
    /\ unchangedButLocks

\* RLock returns: no writer holds the lock or waits for it
take_read(t) ==
    /\ HasNext(t)
    /\ NextOp(t).op = "RLock"
    /\ \A o \in Others(t) : ~HoldsWrite(o, NextOp(t).lock) /\ ~AsksWrite(o, NextOp(t).lock)
    /\ ~HoldsWrite(t, NextOp(t).lock)
    /\ lk' = [lk EXCEPT !.pc[t] = @ + 1]
    /\ unchangedButLocks

\* Unlock or RUnlock
release(t) ==
    /\ HasNext(t)
    /\ NextOp(t).op \in {"Unlock", "RUnlock"}
    /\ lk' = [lk EXCEPT !.pc[t] = @ + 1]
    /\ unchangedButLocks

Step(t) == ask_write(t) \/ take_write(t) \/ take_read(t) \/ release(t)

NextLocks ==
    \/ \E t \in Threads, c \in Calls : start_call(t, c)
    \/ \E t \in Threads : ask_write(t)
    \/ \E t \in Threads : take_write(t)
    \/ \E t \in Threads : take_read(t)
    \/ \E t \in Threads : release(t)

\* the scheduler runs every thread that can take a step
SpecLocks == InitLocks /\ [][NextLocks]_vars /\ \A t \in Threads : WF_vars(Step(t))

Started(t) == lk.run[t] # Idle
Returned(t) == lk.run[t] # Idle /\ ~HasNext(t)

MaxMessages == 3

\* json.Unmarshal into Message: the fields Type and Data, every other key dropped
ParseMessage(json) ==
    [Type |-> json.type, Data |-> IF "data" \in DOMAIN json THEN json.data ELSE ""]

\* json.Marshal of a Message: the keys type and data
ToJSON(m) == [type |-> m.Type, data |-> m.Data]

\* handleMessage with the session handlers it calls; current: currentSession is set
handleMessage(msg, current) ==
    CASE msg.Type = "create_session" ->
            [response |-> [Type |-> "session_created", Data |-> "s"], current |-> TRUE]
      [] msg.Type = "leave_session" ->
            IF current
            THEN [response |-> [Type |-> "status", Data |-> "left"], current |-> FALSE]
            ELSE [response |-> [Type |-> "error", Data |-> "leave_session_failed"],
                  current |-> current]
      [] msg.Type = "health_check" ->
            [response |-> [Type |-> "status", Data |-> "healthy"], current |-> current]
      [] OTHER ->
            [response |-> [Type |-> "error", Data |-> "unknown_message_type"],
             current |-> current]

\* the client state after handle_session_created
handle_session_created(state, data) ==
    [state EXCEPT !.session_id = data, !.has_control = TRUE]

\* the callbacks of create_session and leave_session of init.lua, by name
RunCallback(callback, response, state) ==
    CASE callback = "create_session" /\ response.type = "session_created" ->
            handle_session_created(state, response.data)
      [] callback = "leave_session" /\ response.type \in {"session_left", "status"} ->
            [state EXCEPT !.session_id = "", !.has_control = FALSE]
      [] OTHER -> state

\* handle_p2p_message, the handler of messages that match no callback
handle_p2p_message(message, state) ==
    IF message.type = "session_created"
    THEN handle_session_created(state, message.data)
    ELSE state

unchangedButRpc ==
    UNCHANGED <<sm, created, net, nextID, delivered, resets, ret, tp, hist, thr, tie, join, clk, it, hs, lk, ses>>

\* the process is running, nothing sent yet; the ghost fields sent, re and calls
\* record the ids sent, the request each line of stdout answers and the number of
\* times each request's callback ran
InitRpc ==
    /\ sm = [p \in Users |-> NewSyncManager(p)]
    /\ created = [p \in Users |-> {}]
    /\ net = {}
    /\ nextID = 0
    /\ delivered = [p \in Users |-> 0]
    /\ resets = 0
    /\ ret = [user |-> "", call |-> "init", err |-> "nil", at |-> "", arg |-> <<>>]
    /\ tp = [done |-> FALSE]
    /\ hist = [on |-> FALSE]
    /\ thr = [on |-> FALSE]
    /\ tie = [done |-> FALSE]
    /\ join = [on |-> FALSE]
    /\ clk = [on |-> FALSE]
    /\ it = [done |-> FALSE]
    /\ hs = [on |-> FALSE]
    /\ lk = [on |-> FALSE]
    /\ ses = [on |-> FALSE]
    /\ rpc = [on |-> TRUE,
              next_message_id |-> 1,
              response_callbacks |-> [i \in {} |-> ""],
              state |-> [session_id |-> "", has_control |-> FALSE],
              stdin |-> <<>>,
              stdout |-> <<>>,
              current |-> FALSE,
              sent |-> <<>>,
              re |-> <<>>,
              calls |-> [i \in 1..MaxMessages |-> 0],
              last |-> "init"]

\* M.send_message; callback "" is a call without a callback
send_message(message, callback) ==
    /\ rpc.on
    /\ rpc.next_message_id <= MaxMessages
    /\ LET message_id == rpc.next_message_id
           json == [k \in DOMAIN message \cup {"id"} |->
                       IF k = "id" THEN message_id ELSE message[k]]
       IN rpc' = [rpc EXCEPT
                    !.next_message_id = message_id + 1,
                    !.response_callbacks =
                        IF callback # ""
                        THEN [i \in DOMAIN @ \cup {message_id} |->
                                 IF i = message_id THEN callback ELSE @[i]]
                        ELSE @,
                    !.stdin = Append(@, json),
                    !.sent = Append(@, message_id),
                    !.last = "send_message"]
    /\ unchangedButRpc

\* M.create_session of init.lua
create_session ==
    send_message([type |-> "create_session", data |-> "file"], "create_session")

\* M.leave_session of init.lua
leave_session ==
    /\ rpc.on
    /\ rpc.state.session_id # ""
    /\ send_message([type |-> "leave_session", data |-> rpc.state.session_id],
                    "leave_session")

\* M.health_check of p2p.lua, with no callback
health_check == send_message([type |-> "health_check"], "")

\* one pass of the loop of main: a line of stdin parsed, handled and answered
main ==
    /\ rpc.on
    /\ rpc.stdin # <<>>
    /\ LET line == Head(rpc.stdin)
           msg == ParseMessage(line)
           out == handleMessage(msg, rpc.current)
       IN rpc' = [rpc EXCEPT
                    !.stdin = Tail(@),
                    !.current = out.current,
                    !.stdout = Append(@, ToJSON(out.response)),
                    !.re = Append(@, line.id),
                    !.last = "main"]
    /\ unchangedButRpc

\* M.handle_json_message on the next line of stdout
handle_json_message ==
    /\ rpc.on
    /\ rpc.stdout # <<>>
    /\ LET message == Head(rpc.stdout)
           matched == /\ "id" \in DOMAIN message
                      /\ message.id \in DOMAIN rpc.response_callbacks
       IN rpc' = [rpc EXCEPT
                    !.stdout = Tail(@),
                    !.re = Tail(@),
                    !.response_callbacks =
                        IF matched
                        THEN [i \in DOMAIN @ \ {message.id} |-> @[i]]
                        ELSE @,
                    !.calls =
                        IF matched THEN [@ EXCEPT ![message.id] = @ + 1] ELSE @,
                    !.state =
                        IF matched
                        THEN RunCallback(rpc.response_callbacks[message.id], message, @)
                        ELSE handle_p2p_message(message, @),
                    !.last = "handle_json_message"]
    /\ unchangedButRpc

NextRpc ==
    \/ create_session
    \/ leave_session
    \/ health_check
    \/ main
    \/ handle_json_message

SpecRpc == InitRpc /\ [][NextRpc]_vars

\* C39: every request gets an id greater than every id sent before it, and when
\* the client handles the Go process's answer to a request that was sent with a
\* callback, that callback runs then, for the first time, on that response, and
\* is taken out of the pending-callback table; when it is the callback of
\* leave_session and the process has left the session, the client's session_id
\* and has_control are cleared.
C39_Correlation ==
    [][ /\ (rpc.on /\ rpc'.last = "send_message") =>
              \A i \in 1..Len(rpc.sent) : rpc.sent[i] < rpc'.sent[Len(rpc'.sent)]
        /\ (rpc.on /\ rpc'.last = "handle_json_message"
                   /\ rpc.re[1] \in DOMAIN rpc.response_callbacks) =>
              LET q == rpc.re[1]
              IN /\ rpc.calls[q] = 0
                 /\ rpc'.calls[q] = 1
                 /\ q \notin DOMAIN rpc'.response_callbacks
                 /\ rpc'.state = RunCallback(rpc.response_callbacks[q],
                                             Head(rpc.stdout), rpc.state)
                 /\ (rpc.response_callbacks[q] = "leave_session"
                       /\ Head(rpc.stdout).type = "status") =>
                        rpc'.state.session_id = "" /\ ~rpc'.state.has_control ]_vars

\* C39, the part about ids alone
C39_FreshIds ==
    [][ (rpc.on /\ rpc'.last = "send_message") =>
           \A i \in 1..Len(rpc.sent) : rpc.sent[i] < rpc'.sent[Len(rpc'.sent)] ]_vars

\* the client has handled the answer to its leave_session request
C39_Answered ==
    /\ rpc.on
    /\ rpc.last = "handle_json_message"
    /\ \E q \in DOMAIN rpc.response_callbacks :
          /\ rpc.response_callbacks[q] = "leave_session"
          /\ ~rpc.current
          /\ rpc.stdin = <<>> /\ rpc.stdout = <<>>

\* ---------------------------------------------------------------------------
\* The SessionManager of one Go process: the sessions it has created or joined,
\* by id, and the id of the current one ("" when currentSession is nil).
\* ---------------------------------------------------------------------------

\* session ids: the hash CreateSession generates, the id JoinSession is given
MaxSessions == 2
SessionIDs == 1..MaxSessions

unchangedButSession ==
    UNCHANGED <<sm, created, net, nextID, delivered, resets, ret, tp, hist, thr, tie, join, clk, it, hs, lk, rpc>>

\* NewSessionManager: a generated user id, no session; ret is the last call, its
\* error and the controller of the current session when it was made
InitSession ==
    /\ sm = [p \in Users |-> NewSyncManager(p)]
    /\ created = [p \in Users |-> {}]
    /\ net = {}
    /\ nextID = 0
    /\ delivered = [p \in Users |-> 0]
    /\ resets = 0
    /\ ret = [user |-> "", call |-> "init", err |-> "nil", at |-> "", arg |-> <<>>]
    /\ tp = [done |-> FALSE]
    /\ hist = [on |-> FALSE]
    /\ thr = [on |-> FALSE]
    /\ tie = [done |-> FALSE]
    /\ join = [on |-> FALSE]
    /\ clk = [on |-> FALSE]
    /\ it = [done |-> FALSE]
    /\ hs = [on |-> FALSE]
    /\ lk = [on |-> FALSE]
    /\ rpc = [on |-> FALSE]
    /\ ses = [on |-> TRUE,
              userID |-> "0f1e2d3c4b5a6978",
              sessions |-> [i \in {} |-> [Peers |-> {}, Controller |-> "", IsActive |-> FALSE]],
              currentSession |-> 0,
              ret |-> [call |-> "init", err |-> "nil", controller |-> ""]]

CreateSession(sessionID) ==
    /\ ses.on
    /\ LET session == [Peers |-> {ses.userID}, Controller |-> ses.userID, IsActive |-> TRUE]
       IN ses' = [ses EXCEPT
                    !.sessions = [i \in DOMAIN @ \cup {sessionID} |->
                                     IF i = sessionID THEN session ELSE @[i]],
                    !.currentSession = sessionID,
                    !.ret = [call |-> "CreateSession", err |-> "nil", controller |-> ""]]
    /\ unchangedButSession

JoinSession(sessionID) ==
    /\ ses.on
    /\ LET session == [Peers |-> {"remote-user", ses.userID},
                       Controller |-> "remote-user", IsActive |-> TRUE]
       IN ses' = [ses EXCEPT
                    !.sessions = [i \in DOMAIN @ \cup {sessionID} |->
                                     IF i = sessionID THEN session ELSE @[i]],
                    !.currentSession = sessionID,
                    !.ret = [call |-> "JoinSession", err |-> "nil", controller |-> ""]]
    /\ unchangedButSession

LeaveSession_keepsController ==
    /\ ses.on
    /\ IF ses.currentSession = 0
       THEN ses' = [ses EXCEPT !.ret = [call |-> "LeaveSession",
                                        err |-> "no active session to leave",
                                        controller |-> ""]]
       ELSE LET session == ses.sessions[ses.currentSession]
                Peers == session.Peers \ {ses.userID}
            IN ses' = [ses EXCEPT
                         !.sessions[ses.currentSession] =
                             [Peers |-> Peers,
                              Controller |-> session.Controller,
                              IsActive |-> IF Peers = {} THEN FALSE ELSE session.IsActive],
                         !.currentSession = 0,
                         !.ret = [call |-> "LeaveSession", err |-> "nil",
                                  controller |-> session.Controller]]
    /\ unchangedButSession

\* the range loop over the remaining peers takes whichever the map yields first
LeaveSession ==
    /\ ses.on
    /\ IF ses.currentSession = 0
       THEN ses' = [ses EXCEPT !.ret = [call |-> "LeaveSession",
                                        err |-> "no active session to leave",
                                        controller |-> ""]]
       ELSE LET session == ses.sessions[ses.currentSession]
                Peers == session.Peers \ {ses.userID}
            IN \E Controller \in IF session.Controller # ses.userID THEN {session.Controller}
                                 ELSE IF Peers = {} THEN {""} ELSE Peers :
                  ses' = [ses EXCEPT
                            !.sessions[ses.currentSession] =
                                [Peers |-> Peers,
                                 Controller |-> Controller,
                                 IsActive |-> IF Peers = {} THEN FALSE ELSE session.IsActive],
                            !.currentSession = 0,
                            !.ret = [call |-> "LeaveSession", err |-> "nil",
                                     controller |-> session.Controller]]
    /\ unchangedButSession

RequestControl ==
    /\ ses.on
    /\ IF ses.currentSession = 0
       THEN ses' = [ses EXCEPT !.ret = [call |-> "RequestControl",
                                        err |-> "no active session", controller |-> ""]]
       ELSE ses' = [ses EXCEPT
                      !.sessions[ses.currentSession].Controller = ses.userID,
                      !.ret = [call |-> "RequestControl", err |-> "nil",
                               controller |-> ses.sessions[ses.currentSession].Controller]]
    /\ unchangedButSession

ReleaseControl ==
    /\ ses.on
    /\ IF ses.currentSession = 0
       THEN ses' = [ses EXCEPT !.ret = [call |-> "ReleaseControl",
                                        err |-> "no active session", controller |-> ""]]
       ELSE LET session == ses.sessions[ses.currentSession]
            IN IF session.Controller # ses.userID
               THEN ses' = [ses EXCEPT !.ret = [call |-> "ReleaseControl",
                                                err |-> "you don't have control",
                                                controller |-> session.Controller]]
               ELSE ses' = [ses EXCEPT
                              !.sessions[ses.currentSession].Controller = "",
                              !.ret = [call |-> "ReleaseControl", err |-> "nil",
                                       controller |-> session.Controller]]
    /\ unchangedButSession

NextSession ==
    \/ \E sessionID \in SessionIDs : CreateSession(sessionID)
    \/ \E sessionID \in SessionIDs : JoinSession(sessionID)
    \/ LeaveSession
    \/ RequestControl
    \/ ReleaseControl

SpecSession == InitSession /\ [][NextSession]_vars

\* C40: after every call of the SessionManager the controller of every session is
\* empty or one of the session's peers; RequestControl and ReleaseControl made
\* without a current session, and ReleaseControl made while the controller is
\* somebody else, return an error and change no session.
C40_ControlToken ==
    [][ ses.on =>
          /\ \A i \in DOMAIN ses'.sessions :
                \/ ses'.sessions[i].Controller = ""
                \/ ses'.sessions[i].Controller \in ses'.sessions[i].Peers
          /\ (ses'.ret.call \in {"RequestControl", "ReleaseControl"}
                /\ ses.currentSession = 0) =>
                 ses'.ret.err # "nil" /\ ses'.sessions = ses.sessions
          /\ (ses'.ret.call = "ReleaseControl" /\ ses.currentSession # 0
                /\ ses.sessions[ses.currentSession].Controller # ses.userID) =>
                 ses'.ret.err # "nil" /\ ses'.sessions = ses.sessions ]_vars

\* the controller has left a joined session and the control went to the remaining
\* peer, and a later release without a session was refused
C40_Witness ==
    /\ ses.on
    /\ ses.ret.call = "ReleaseControl"
    /\ ses.ret.err # "nil"
    /\ ses.currentSession = 0
    /\ \E i \in DOMAIN ses.sessions :
          /\ ses.userID \notin ses.sessions[i].Peers
          /\ ses.sessions[i].Controller = "remote-user"
    /\ \E i \in DOMAIN ses.sessions :
          /\ ses.sessions[i].Peers = {}
          /\ ~ses.sessions[i].IsActive

====
